---- MODULE Spec2Model ----
(***************************************************************************)
(* Model of the agentic design patterns of this repository:                *)
(*   agentic_patterns/orchestrator.py  (Orchestrator)                      *)
(*   agentic_patterns/judge_loop.py    (JudgeLoop)                         *)
(*   agentic_patterns/parallel.py      (ParallelTranslation)               *)
(*   utils/model_provider.py           (call_model and its stub)           *)
(*   utils/tracing.py                  (Tracer)                            *)
(*   utils/memory.py                   (SlidingWindowMemory)               *)
(*   agentic_patterns/router.py        (Router)                            *)
(*   agentic_patterns/sequential_chain.py (SequentialChain)                *)
(* Python strings are TLA+ strings; the string primitives of the code     *)
(* (lower, strip, split, the substring test `in`) are modelled below by    *)
(* what they compute on the characters.                                    *)
(***************************************************************************)
EXTENDS Integers, Sequences, FiniteSets, TLC

VARIABLES
    \* ---- Orchestrator ----
    orch_pc,              \* position of the caller / of Orchestrator.run
    orch_entry,           \* which method the caller entered: run or execute_tasks
    workers,              \* self.workers: task type -> worker function
    project_description,  \* argument of Orchestrator.run
    tasks,                \* the task list being executed
    results,              \* local `results` of execute_tasks
    invoked,              \* workers called so far, in call order (history)
    orch_raised,          \* exception that left the Orchestrator call, or None
    orch_result,          \* OrchestratorResult returned by run, or None
    orch_events,          \* Tracer.events of the run's tracer
    orch_store            \* lines of the run's trace file

\* ---- process environment (utils/model_provider.py) and JudgeLoop ----
VARIABLES
    use_openai,           \* os.getenv("USE_OPENAI") == "true"
    jl_pc,                \* position of the caller / of JudgeLoop.run
    max_iterations,       \* self.max_iterations
    topic,                \* argument of run
    iteration,            \* loop variable of run (0: not bound)
    outline,              \* local `outline`
    feedback,             \* local `feedback`
    evaluation,           \* local `evaluation`
    gen_calls,            \* generate_outline calls so far (history)
    eval_calls,           \* evaluate calls so far (history)
    jl_events,            \* Tracer.events of the run's tracer
    jl_store,             \* lines of the run's trace file
    jl_result,            \* dict returned by run, or None
    jl_error,             \* exception raised by run, or None
    gen_failures          \* generate_outline calls that raised (history)

judgeVars == <<jl_pc, max_iterations, topic, iteration, outline, feedback,
               evaluation, gen_calls, eval_calls, jl_events, jl_store,
               jl_result, jl_error, gen_failures>>

\* ---- ParallelTranslation ----
VARIABLES
    par_pc,               \* position of the caller / of ParallelTranslation.run
    target_language,      \* self.target_language
    par_message,          \* argument of run
    translations,         \* replies of the completed translate_once calls
    par_result,           \* dict returned by run, or None
    par_failures,         \* positions (of the gather) whose call raised
    par_error,            \* exception raised by run, or None
    par_trace             \* where each translate_once call began and ended (history)

parVars == <<par_pc, target_language, par_message, translations, par_result,
             par_failures, par_error, par_trace>>

\* ---- call_model called directly (utils/model_provider.py) ----
VARIABLES
    api_key,              \* bool(os.getenv("OPENAI_API_KEY"))
    cm_calls              \* the call_model calls so far and their outcomes

gatewayVars == <<api_key, cm_calls>>

\* ---- Tracer (utils/tracing.py) ----
VARIABLES
    tr_events,            \* self.events
    tr_store,             \* lines of the file {trace_dir}/{task_id}.jsonl
    tr_finalized,         \* the finalize calls so far: path returned, lines written
    tr_logged             \* the events logged so far, in order (history)

tracerVars == <<tr_events, tr_store, tr_finalized, tr_logged>>

\* ---- SlidingWindowMemory (utils/memory.py) ----
VARIABLES
    mem_pc,               \* position of the caller: new, ready, raised
    max_length,           \* argument of __init__
    buffer,               \* self.buffer
    mem_error,            \* exception raised by __init__, or None
    added                 \* arguments of the add calls, in call order (history)

memoryVars == <<mem_pc, max_length, buffer, mem_error, added>>

\* ---- Router (agentic_patterns/router.py) ----
VARIABLES
    langdetect,           \* whether `from langdetect import detect` succeeded
    handlers,             \* self.handlers: language code -> handler
    rt_ops                \* the register_handler and handle calls so far (history)

routerVars == <<langdetect, handlers, rt_ops>>

\* ---- SequentialChain (agentic_patterns/sequential_chain.py) ----
VARIABLES
    sc_pc,                \* position of the caller / of SequentialChain.run
    sc_memory,            \* self.memory.buffer
    memory_size,          \* argument of __init__: the maxlen of that buffer
    entities,             \* self.entities.entities
    product_description,  \* argument of run
    sc_language,          \* argument target_language of run
    sc_copy,              \* local `marketing_copy`
    validation_result,    \* local `validation_result`
    sc_parts,             \* replies of the translate_text calls made so far
    sc_calls,             \* the call_model calls of run so far (history)
    sc_events,            \* Tracer.events of the run's tracer
    sc_store,             \* lines of the run's trace file
    sc_result             \* dict returned by run, or None

chainVars == <<sc_pc, sc_memory, memory_size, entities, product_description,
               sc_language, sc_copy, validation_result, sc_parts, sc_calls,
               sc_events, sc_store, sc_result>>

orchVars == <<orch_pc, orch_entry, workers, project_description, tasks, results, invoked,
              orch_raised, orch_result, orch_events, orch_store>>

utilVars == <<gatewayVars, tracerVars, memoryVars>>

moreVars == <<routerVars, chainVars>>

vars == <<use_openai, orchVars, judgeVars, parVars, utilVars, moreVars>>

\* What the steps of one pattern leave alone: the other patterns.
OrchOthers == <<moreVars, use_openai, judgeVars, parVars, utilVars>>
JudgeOthers == <<moreVars, use_openai, orchVars, parVars, utilVars>>
ParOthers == <<moreVars, use_openai, orchVars, judgeVars, utilVars>>
GatewayOthers == <<moreVars, use_openai, orchVars, judgeVars, parVars, tracerVars, memoryVars>>
TracerOthers == <<moreVars, use_openai, orchVars, judgeVars, parVars, gatewayVars, memoryVars>>
MemoryOthers == <<moreVars, use_openai, orchVars, judgeVars, parVars, gatewayVars, tracerVars>>
RouterOthers == <<use_openai, orchVars, judgeVars, parVars, utilVars, chainVars>>
ChainOthers == <<use_openai, orchVars, judgeVars, parVars, utilVars, routerVars>>

\* Python's None, where a string is expected and where a record is.
None == "<None>"
NoResult == <<>>

(***************************************************************************)
(* Python string primitives.                                               *)
(***************************************************************************)
UpperCase == "ABCDEFGHIJKLMNOPQRSTUVWXYZ"
LowerCase == "abcdefghijklmnopqrstuvwxyz"

CharAt(s, i) == SubSeq(s, i, i)

\* Call by value, as Python calls: the argument expression e is evaluated
\* once and F is applied to its value.
Strict(F(_), e) == CHOOSE r \in {F(x) : x \in {e}} : TRUE

\* str.lower() on one character.
LowerChar(c) ==
    LET f(x) ==
          IF \E i \in 1..Len(UpperCase) : CharAt(UpperCase, i) = x
          THEN CharAt(LowerCase,
                      CHOOSE i \in 1..Len(UpperCase) : CharAt(UpperCase, i) = x)
          ELSE x
    IN Strict(f, c)

\* str.lower(), by halves so that the evaluation depth stays logarithmic.
RECURSIVE lower(_)
lower(s) ==
    LET f(x) ==
          IF x = "" THEN ""
          ELSE IF Len(x) = 1 THEN LowerChar(x)
          ELSE lower(SubSeq(x, 1, Len(x) \div 2))
                 \o lower(SubSeq(x, Len(x) \div 2 + 1, Len(x)))
    IN Strict(f, s)

\* `sub in s` for strings: sub occurs as a contiguous substring of s.
contains(s, sub) ==
    \E x \in {s}, y \in {sub} :
      \E i \in 1..(Len(x) - Len(y) + 1) : SubSeq(x, i, i + Len(y) - 1) = y

\* Characters removed by str.strip() and separating words in str.split().
IsSpace(c) == c \in {" ", "\t", "\n", "\r", "\f"}

SetMin(S) == CHOOSE x \in S : \A y \in S : x <= y
SetMax(S) == CHOOSE x \in S : \A y \in S : x >= y

\* str.strip(): what lies between the first and the last non-space character.
strip(s) ==
    LET f(x) ==
          LET solid == {i \in 1..Len(x) : ~IsSpace(CharAt(x, i))}
          IN IF solid = {} THEN "" ELSE SubSeq(x, SetMin(solid), SetMax(solid))
    IN Strict(f, s)

\* str.split(sep) for a one-character separator: the pieces between
\* consecutive separators; never empty, keeps empty pieces.
split(s, sep) ==
    LET f(x) ==
          LET at     == {i \in 1..Len(x) : CharAt(x, i) = sep}
              cut(k) == IF k = 0 THEN 0
                        ELSE IF k = Cardinality(at) + 1 THEN Len(x) + 1
                        ELSE CHOOSE i \in at :
                               Cardinality({j \in at : j < i}) = k - 1
          IN [k \in 1..(Cardinality(at) + 1) |->
                SubSeq(x, cut(k - 1) + 1, cut(k) - 1)]
    IN Strict(f, s)

\* "\n".join(lines)
RECURSIVE join_lines(_)
join_lines(lines) ==
    IF lines = <<>> THEN ""
    ELSE IF Len(lines) = 1 THEN lines[1]
    ELSE lines[1] \o "\n" \o join_lines(Tail(lines))

\* Python truthiness of `a or b` on Optional[str] values.
Or(a, b) == IF a # "" /\ a # None THEN a ELSE b

(***************************************************************************)
(* utils/tracing.py, as used by the patterns: events are buffered by log   *)
(* and appended to the run's file by finalize.  Timestamps are left out.   *)
(***************************************************************************)
TracePath == "traces/run.jsonl"

TraceEvent(role, sender, content) ==
    [role |-> role, sender |-> sender, content |-> content]

tracer_log_front(events, role, sender, content) ==
    <<TraceEvent(role, sender, content)>> \o events

tracer_log(events, role, sender, content) ==
    Append(events, TraceEvent(role, sender, content))

(***************************************************************************)
(* agentic_patterns/orchestrator.py                                        *)
(***************************************************************************)
Task(task_id, description, type) ==
    [task_id |-> task_id, description |-> description, type |-> type,
     dependencies |-> <<>>]

TaskResult(task_id, success, output, error) ==
    [task_id |-> task_id, success |-> success, output |-> output,
     error |-> error]

OrchestratorResult(all_tasks_completed, res, summary) ==
    [all_tasks_completed |-> all_tasks_completed, results |-> res,
     summary |-> summary]

\* `any(keyword in line.lower() for keyword in keywords)`
any_keyword(line, keywords) ==
    \E k \in 1..Len(keywords) : contains(lower(line), keywords[k])

\* The if/elif/else of analyse_project that determines the task type.
classify_backend_first(line) ==
    IF any_keyword(line, <<"api", "backend">>) THEN "backend"
    ELSE IF any_keyword(line, <<"ui", "frontend">>) THEN "frontend"
    ELSE "analysis"

classify(line) ==
    IF any_keyword(line, <<"ui", "frontend">>) THEN "frontend"
    ELSE IF any_keyword(line, <<"api", "backend">>) THEN "backend"
    ELSE "analysis"

\* `[line.strip() for line in description.split("\n") if line.strip()]`
RECURSIVE stripped_lines(_)
stripped_lines(pieces) ==
    IF pieces = <<>> THEN <<>>
    ELSE IF strip(Head(pieces)) # ""
         THEN <<strip(Head(pieces))>> \o stripped_lines(Tail(pieces))
         ELSE stripped_lines(Tail(pieces))

\* A decomposition that numbers the raw lines, so that a blank line uses up
\* an id.
analyse_project_raw_index(description) ==
    LET pieces == split(description, "\n")
        kept   == SelectSeq([j \in 1..Len(pieces) |-> j],
                            LAMBDA j : strip(pieces[j]) # "")
    IN [k \in 1..Len(kept) |->
          Task("task_" \o ToString(kept[k]), strip(pieces[kept[k]]),
               classify(strip(pieces[kept[k]])))]

analyse_project(description) ==
    LET lines == stripped_lines(split(description, "\n"))
    IN [idx \in 1..Len(lines) |->
          Task("task_" \o ToString(idx), lines[idx], classify(lines[idx]))]

\* The worker functions.  The three methods of the class, and two functions
\* a caller can put into self.workers: one that raises, one that reports a
\* failure in its TaskResult.
BuiltinWorkers == {"backend_worker", "frontend_worker", "analysis_worker"}
InjectedWorkers == {"raising_worker", "declining_worker"}
WorkerFns == BuiltinWorkers \cup InjectedWorkers

\* What a caller puts into self.workers in place of an entry.
Replacements == InjectedWorkers \cup {"analysis_worker"}

Returned(value) == [raised |-> FALSE, value |-> value, message |-> None]
Raised(message) == [raised |-> TRUE, value |-> None, message |-> message]

backend_worker(task) ==
    Returned(TaskResult(task.task_id, TRUE,
                        "Implemented API changes for: " \o task.description, None))

frontend_worker(task) ==
    Returned(TaskResult(task.task_id, TRUE,
                        "Updated UI components for: " \o task.description, None))

analysis_worker(task) ==
    Returned(TaskResult(task.task_id, TRUE,
                        "Analysed requirement: " \o task.description, None))

raising_worker(task) == Raised("boom: " \o task.task_id)

declining_worker(task) ==
    Returned(TaskResult(task.task_id, FALSE, "", "declined"))

\* `worker(task)`
call_worker(worker, task) ==
    CASE worker = "backend_worker"   -> backend_worker(task)
      [] worker = "frontend_worker"  -> frontend_worker(task)
      [] worker = "analysis_worker"  -> analysis_worker(task)
      [] worker = "raising_worker"   -> raising_worker(task)
      [] worker = "declining_worker" -> declining_worker(task)

\* `self.workers.get(task.type, self.analysis_worker)`
workers_get_table_default(table, type) ==
    IF type \in DOMAIN table THEN table[type] ELSE table["analysis"]

workers_get(table, type) ==
    IF type \in DOMAIN table THEN table[type] ELSE "analysis_worker"

\* The try/except around the call: what reaches `results.append`, and
\* whether an exception leaves execute_tasks.
guarded_call_unguarded(worker, task) ==
    LET call == call_worker(worker, task)
    IN IF call.raised
       THEN [propagates |-> TRUE, result |-> None, message |-> call.message]
       ELSE [propagates |-> FALSE, result |-> call.value, message |-> None]

guarded_call(worker, task) ==
    LET call == call_worker(worker, task)
    IN IF call.raised
       THEN [propagates |-> FALSE,
             result |-> TaskResult(task.task_id, FALSE, "", call.message),
             message |-> None]
       ELSE [propagates |-> FALSE, result |-> call.value, message |-> None]

\* `results.append(result)`
results_append_front(res, result) == <<result>> \o res

results_append(res, result) == Append(res, result)

\* `all(res.success for res in results)`
RECURSIVE any_success(_)
any_success(res) ==
    IF res = <<>> THEN FALSE
    ELSE IF Head(res).success THEN TRUE ELSE any_success(Tail(res))

RECURSIVE all_success(_)
all_success(res) ==
    IF res = <<>> THEN TRUE
    ELSE IF ~Head(res).success THEN FALSE ELSE all_success(Tail(res))

\* synthesise_results
synthesise_line_always_succeeded(res) ==
    res.task_id \o " (succeeded): " \o Or(res.output, res.error)

synthesise_line(res) ==
    res.task_id \o " (" \o (IF res.success THEN "succeeded" ELSE "failed")
      \o "): " \o Or(res.output, res.error)

synthesise_results(res) ==
    join_lines([i \in 1..Len(res) |-> synthesise_line(res[i])])

\* The tracer.log calls of run that follow execute_tasks.
RECURSIVE log_results(_, _)
log_results(events, res) ==
    IF res = <<>> THEN events
    ELSE log_results(
           tracer_log(events, "agent", "worker",
                      "Task " \o Head(res).task_id \o ": "
                        \o Or(Head(res).output, Head(res).error)),
           Tail(res))

(***************************************************************************)
(* Inputs of the Orchestrator.                                             *)
(***************************************************************************)
MaxDescLen == 3

DescAlphabet == {"U", "i", "a", "p", " ", "\n"}

RECURSIVE StringsOfLen(_)
StringsOfLen(n) ==
    IF n = 0 THEN {""}
    ELSE {c \o s : c \in DescAlphabet, s \in StringsOfLen(n - 1)}

ExampleDescription == "Build login UI\nBuild login API\nWrite report"

ExampleDescriptions ==
    { ExampleDescription,
      "Design the API\n\n  Polish the UI  \nWrite report",
      "API for the UI\nBackend of the Frontend\nFRONTEND\nbackend jobs",
      "Write report\n \nRest API\n\t\nPlan\r",
      " \n\t\n" }

Descriptions ==
    UNION {StringsOfLen(n) : n \in 0..MaxDescLen} \cup ExampleDescriptions

WorkerKinds == {"backend", "frontend", "analysis"}

\* Task lists handed to execute_tasks directly by a caller.
DirectTaskLists ==
    { <<>>,
      <<Task("t1", "Sketch the logo", "design")>>,
      <<Task("a", "Rest API", "backend"), Task("a", "Login UI", "frontend")>>,
      <<Task("t1", "Rest API", "backend"), Task("t2", "Logo", "design"),
        Task("t3", "Report", "analysis")>> }

(***************************************************************************)
(* Orchestrator: state machine.                                            *)
(***************************************************************************)
\* self.workers as __init__ builds it.
DefaultWorkers ==
    [backend  |-> "backend_worker",
     frontend |-> "frontend_worker",
     analysis |-> "analysis_worker"]

OrchInit ==
    /\ orch_pc = "idle"
    /\ orch_entry = "none"
    /\ workers = DefaultWorkers
    /\ project_description = None
    /\ tasks = <<>>
    /\ results = <<>>
    /\ invoked = <<>>
    /\ orch_raised = None
    /\ orch_result = NoResult
    /\ orch_events = <<>>
    /\ orch_store = <<>>

\* A caller replaces an entry of the dispatch table: `o.workers[kind] = fn`.
OrchInjectWorker(kind, fn) ==
    /\ UNCHANGED OrchOthers
    /\ orch_pc = "idle"
    /\ workers[kind] # fn
    /\ workers' = [workers EXCEPT ![kind] = fn]
    /\ UNCHANGED <<orch_pc, orch_entry, project_description, tasks, results,
                   invoked, orch_raised, orch_result, orch_events, orch_store>>

\* Orchestrator.run up to the call of execute_tasks.
OrchRun(description) ==
    /\ UNCHANGED OrchOthers
    /\ orch_pc = "idle"
    /\ orch_pc' = "executing"
    /\ orch_entry' = "run"
    /\ project_description' = description
    /\ tasks' = analyse_project(description)
    /\ results' = <<>>
    /\ orch_events' =
         tracer_log(
           tracer_log(<<>>, "user", "client", description),
           "agent", "orchestrator",
           "Created " \o ToString(Len(analyse_project(description))) \o " tasks")
    /\ UNCHANGED <<workers, invoked, orch_raised, orch_result, orch_store>>

\* A caller invokes execute_tasks on a task list of its own.
OrchExecuteTasks(taskList) ==
    /\ UNCHANGED OrchOthers
    /\ orch_pc = "idle"
    /\ orch_pc' = "executing"
    /\ orch_entry' = "execute_tasks"
    /\ tasks' = taskList
    /\ results' = <<>>
    /\ UNCHANGED <<workers, project_description, invoked, orch_raised,
                   orch_result, orch_events, orch_store>>

\* One iteration of the for loop of execute_tasks.
OrchExecuteOne ==
    /\ UNCHANGED OrchOthers
    /\ orch_pc = "executing"
    /\ Len(results) < Len(tasks)
    /\ LET task   == tasks[Len(results) + 1]
           worker == workers_get(workers, task.type)
           got    == guarded_call(worker, task)
       IN /\ invoked' = Append(invoked, worker)
          /\ IF got.propagates
             THEN /\ orch_pc' = "raised"
                  /\ orch_raised' = got.message
                  /\ UNCHANGED results
             ELSE /\ results' = results_append(results, got.result)
                  /\ UNCHANGED <<orch_pc, orch_raised>>
    /\ UNCHANGED <<orch_entry, workers, project_description, tasks,
                   orch_result, orch_events, orch_store>>

\* execute_tasks returns to a caller that invoked it directly.
OrchExecuteReturn ==
    /\ UNCHANGED OrchOthers
    /\ orch_pc = "executing"
    /\ orch_entry = "execute_tasks"
    /\ Len(results) >= Len(tasks)
    /\ orch_pc' = "returned"
    /\ UNCHANGED <<orch_entry, workers, project_description, tasks, results,
                   invoked, orch_raised, orch_result, orch_events, orch_store>>

\* Orchestrator.run after execute_tasks: log, summarise, finalize, return.
OrchFinish ==
    /\ UNCHANGED OrchOthers
    /\ orch_pc = "executing"
    /\ orch_entry = "run"
    /\ Len(results) >= Len(tasks)
    /\ LET summary == synthesise_results(results)
           logged  == tracer_log(log_results(orch_events, results),
                                 "agent", "orchestrator",
                                 "Summary:\n" \o summary)
       IN /\ orch_store' = orch_store \o logged
          /\ orch_events' = <<>>
          /\ orch_result' =
               OrchestratorResult(all_success(results), results,
                                  summary \o "\nTrace saved to " \o TracePath)
    /\ orch_pc' = "done"
    /\ UNCHANGED <<orch_entry, workers, project_description, tasks, results,
                   invoked, orch_raised>>

OrchNext ==
    \/ \E kind \in WorkerKinds, fn \in Replacements : OrchInjectWorker(kind, fn)
    \/ \E description \in Descriptions : OrchRun(description)
    \/ \E taskList \in DirectTaskLists : OrchExecuteTasks(taskList)
    \/ OrchExecuteOne
    \/ OrchExecuteReturn
    \/ OrchFinish

(***************************************************************************)
(* Orchestrator: properties.                                               *)
(***************************************************************************)
ExecuteTasksReturned == orch_pc \in {"returned", "done"}

\* What the worker selected for a task does when called on it.
SelectedCall(task) == call_worker(workers_get(workers, task.type), task)

\* C4: execute_tasks returns (no exception leaves it) exactly one outcome per
\* input task, in input order: the i-th outcome carries the i-th task's id,
\* whatever the task list and however many workers raise.
C4_OneOutcomePerTaskInOrder ==
    /\ orch_pc # "raised"
    /\ Len(results) <= Len(tasks)
    /\ \A i \in 1..Len(results) : results[i].task_id = tasks[i].task_id
    /\ ExecuteTasksReturned => Len(results) = Len(tasks)

C4_Witness ==
    /\ orch_pc = "returned"
    /\ Len(tasks) = 3
    /\ Len(results) = 3
    /\ \E i, j \in 1..3 : SelectedCall(tasks[i]).raised /\ results[j].success

\* C5: when the worker selected for a task raises, execute_tasks records
\* exactly one failed outcome for it (success false, output empty, error the
\* exception's message), nothing propagates, and every other task's outcome
\* is what it is when the raising entry is replaced by a worker that returns.
C5_RaisingWorkerIsolated ==
    /\ orch_pc # "raised"
    /\ orch_raised = None
    /\ Len(invoked) = Len(results)
    /\ \A i \in 1..Len(results) :
         SelectedCall(tasks[i]).raised =>
           results[i] = [task_id |-> tasks[i].task_id, success |-> FALSE,
                         output |-> "",
                         error |-> SelectedCall(tasks[i]).message]
    /\ \A kind \in WorkerKinds, fn \in WorkerFns \ {"raising_worker"} :
         workers[kind] = "raising_worker" =>
           \A j \in 1..Len(results) :
             tasks[j].type # kind =>
               LET other == call_worker(
                              workers_get([workers EXCEPT ![kind] = fn],
                                          tasks[j].type), tasks[j])
               IN ~other.raised => results[j] = other.value

C5_Witness ==
    /\ orch_pc = "done"
    /\ Len(results) >= 3
    /\ SelectedCall(tasks[2]).raised
    /\ ~results[2].success
    /\ results[1].success
    /\ results[3].success

\* C6: all_tasks_completed of the result of run is true exactly when every
\* outcome in the returned results has success = true.
C6_AllCompletedIffAllSucceeded ==
    orch_pc = "done" =>
      (orch_result.all_tasks_completed
         <=> \A i \in 1..Len(orch_result.results) :
               orch_result.results[i].success)

C6_Witness ==
    /\ orch_pc = "done"
    /\ ~orch_result.all_tasks_completed
    /\ \E i \in 1..Len(orch_result.results) : orch_result.results[i].success

\* The lines of a description, read off its characters: a non-empty line
\* starts after a newline (or at the start) and runs to the character before
\* the next newline (or the end).
LineStarts(s) ==
    {a \in 1..Len(s) :
       CharAt(s, a) # "\n" /\ (a = 1 \/ CharAt(s, a - 1) = "\n")}

LineEnd(s, a) ==
    SetMax({b \in a..Len(s) : \A i \in a..b : CharAt(s, i) # "\n"})

Solid(s, a) == {i \in a..LineEnd(s, a) : ~IsSpace(CharAt(s, i))}

NonBlankStarts(s) == {a \in LineStarts(s) : Solid(s, a) # {}}

\* C7: analyse_project yields one task per non-blank line, in input order,
\* with the trimmed line as description and ids task_1, task_2, ... given
\* consecutively from 1 (a blank line uses up no id); an empty or all-blank
\* description yields no task.
C7_OneTaskPerNonBlankLine ==
    orch_entry = "run" =>
      LET s       == project_description
          starts  == NonBlankStarts(s)
          rank(a) == Cardinality({b \in starts : b <= a})
      IN /\ Len(tasks) = Cardinality(starts)
         /\ \A a \in starts :
              /\ tasks[rank(a)].task_id = "task_" \o ToString(rank(a))
              /\ tasks[rank(a)].description =
                   SubSeq(s, SetMin(Solid(s, a)), SetMax(Solid(s, a)))
         /\ (\A i \in 1..Len(s) : IsSpace(CharAt(s, i))) => tasks = <<>>

C7_Witness ==
    /\ orch_pc = "done"
    /\ project_description = "Design the API\n\n  Polish the UI  \nWrite report"
    /\ Len(tasks) = 3
    /\ tasks[2].task_id = "task_2"
    /\ tasks[2].description = "Polish the UI"

\* Case-insensitive occurrence of a lower-case keyword in a line.
SameLetter(c, k) ==
    \/ c = k
    \/ \E n \in 1..Len(UpperCase) :
         CharAt(UpperCase, n) = c /\ CharAt(LowerCase, n) = k

OccursIn(line, keyword) ==
    \E i \in 1..(Len(line) - Len(keyword) + 1) :
      \A j \in 1..Len(keyword) :
        SameLetter(CharAt(line, i + j - 1), CharAt(keyword, j))

C9_ExampleDecomposition ==
    (/\ orch_pc = "done"
     /\ project_description = ExampleDescription
     /\ workers = DefaultWorkers) =>
      /\ [i \in 1..Len(tasks) |-> <<tasks[i].task_id, tasks[i].type>>]
           = << <<"task_1", "frontend">>, <<"task_2", "backend">>,
                <<"task_3", "analysis">> >>
      /\ Len(orch_result.results) = 3
      /\ \A i \in 1..3 : orch_result.results[i].success
      /\ orch_result.all_tasks_completed

(***************************************************************************)
(* utils/model_provider.py: the rule-based stub and call_model.            *)
(* The two non-ASCII punctuation marks of the stub's texts (a dash and a   *)
(* non-breaking hyphen) and the accented letters of the dictionary are     *)
(* written with their ASCII look-alikes; none of them is a space, a        *)
(* letter with case, or part of a keyword the code looks for.              *)
(***************************************************************************)
\* len(s.split()): the number of maximal runs of non-space characters.
word_count(s) ==
    LET f(x) ==
          Cardinality({i \in 1..Len(x) :
                         /\ ~IsSpace(CharAt(x, i))
                         /\ (i = 1 \/ IsSpace(CharAt(x, i - 1)))})
    IN Strict(f, s)

\* s.split(): is there a first word, and which.
has_word(s) == \E x \in {s} : \E i \in 1..Len(x) : ~IsSpace(CharAt(x, i))

first_word(s) ==
    LET f(x) ==
          LET from == SetMin({i \in 1..Len(x) : ~IsSpace(CharAt(x, i))})
              upto == SetMax({b \in from..Len(x) :
                                \A i \in from..b : ~IsSpace(CharAt(x, i))})
          IN SubSeq(x, from, upto)
    IN Strict(f, s)

\* s.split(sep)[-1]: what follows the last occurrence of sep.
after_last(s, sep) ==
    LET f(x) ==
          LET at == {i \in 1..(Len(x) - Len(sep) + 1) :
                       SubSeq(x, i, i + Len(sep) - 1) = sep}
          IN IF at = {} THEN x ELSE SubSeq(x, SetMax(at) + Len(sep), Len(x))
    IN Strict(f, s)

\* s.split(sep, 1)[-1]: what follows the first occurrence of sep.
after_first(s, sep) ==
    LET f(x) ==
          LET at == {i \in 1..(Len(x) - Len(sep) + 1) :
                       SubSeq(x, i, i + Len(sep) - 1) = sep}
          IN IF at = {} THEN x ELSE SubSeq(x, SetMin(at) + Len(sep), Len(x))
    IN Strict(f, s)

\* s[:n]
prefix(s, n) ==
    LET f(x) == SubSeq(x, 1, IF Len(x) < n THEN Len(x) ELSE n)
    IN Strict(f, s)

\* _TRANSLATIONS.get(target_lang, {}).get(original, default)
translations_get(target_lang, original, default) ==
    CASE target_lang = "es" /\ original = "Buy now"     -> "Comprar ahora"
      [] target_lang = "es" /\ original = "Learn more"  -> "Mas informacion"
      [] target_lang = "es" /\ original = "Try it free" -> "Pruebalo gratis"
      [] target_lang = "fr" /\ original = "Buy now"     -> "Achetez maintenant"
      [] target_lang = "fr" /\ original = "Learn more"  -> "En savoir plus"
      [] target_lang = "fr" /\ original = "Try it free" -> "Essayez gratuitement"
      [] OTHER -> default

MarketingCopy ==
    "Introducing our latest innovation - a product that seamlessly blends "
      \o "cutting-edge technology with everyday usability. Unlock new "
      \o "possibilities today!"

\* The list `topics` of _stub_response.
StoryTopics ==
    << "An unexpected journey leads to self-discovery.",
       "A mysterious artifact sparks an intergalactic adventure.",
       "A detective unravels secrets in a future metropolis." >>

\* The translation branch of _stub_response, for the lower-cased text that
\* follows the last "to" and the text that follows the first colon.
stub_translation(prompt, tail, original) ==
    IF has_word(tail)
    THEN translations_get(prefix(first_word(tail), 2), original,
                          "[" \o prefix(first_word(tail), 2) \o "] " \o original)
    ELSE "[translation error] " \o prompt

\* _stub_response: the set of replies it can return for a prompt (more than
\* one where it calls random.choice).
stub_response(prompt) ==
    LET f(p) ==
          LET g(lo) ==
                IF contains(lo, "marketing copy") \/ contains(lo, "headline")
                THEN {MarketingCopy}
                ELSE IF contains(lo, "translate") /\ contains(lo, "to")
                THEN {stub_translation(p, after_last(lo, "to"),
                                       strip(after_first(p, ":")))}
                ELSE IF contains(lo, "story outline")
                THEN {StoryTopics[i] : i \in 1..Len(StoryTopics)}
                ELSE {"OK"}
          IN Strict(g, lower(p))
    IN Strict(f, prompt)

Usage(prompt_tokens, completion_tokens) ==
    [prompt_tokens |-> prompt_tokens, completion_tokens |-> completion_tokens]

\* max(1, len(reply.split()) // 5)
stub_tokens(reply) ==
    LET f(n) == IF n \div 5 < 1 THEN 1 ELSE n \div 5
    IN Strict(f, word_count(reply))

\* Usage counts the remote API may report.
RemoteUsages == {Usage(0, 0), Usage(12, 7)}

\* The try block of call_model: what it returns, or the exception it ends
\* with.  `remote` is the set of texts the remote API can answer with.
\* `import openai` and the request can fail whatever the key; without a key
\* the block raises RuntimeError before any request.
remote_attempt(has_key, remote) ==
    LET raises(error) ==
          [raised |-> TRUE, error |-> error, reply |-> None, usage |-> Usage(0, 0)]
        returns(r, u) ==
          [raised |-> FALSE, error |-> None, reply |-> r, usage |-> u]
    IN IF has_key
       THEN {raises("ImportError"), raises("APIError")}
              \cup {returns(r, u) : r \in remote, u \in RemoteUsages}
       ELSE {raises("ImportError"), raises("RuntimeError")}

\* call_model(messages) for messages ending in `prompt`, in an environment
\* with USE_OPENAI and OPENAI_API_KEY as given: the set of outcomes.  `path`
\* and `cause` tell which return statement was reached and, in the except
\* branch, what had been raised; `raised` tells whether the call raised.
call_model_env_fallback_counted(openai, has_key, prompt, remote) ==
    IF openai
    THEN UNION {IF a.raised
                THEN {[reply |-> r, usage |-> Usage(stub_tokens(r), stub_tokens(r)),
                       path |-> "fallback", cause |-> a.error,
                       raised |-> FALSE] : r \in stub_response(prompt)}
                ELSE {[reply |-> a.reply, usage |-> a.usage,
                       path |-> "remote", cause |-> None, raised |-> FALSE]} :
                a \in remote_attempt(has_key, remote)}
    ELSE {[reply |-> r, usage |-> Usage(stub_tokens(r), stub_tokens(r)),
           path |-> "stub", cause |-> None, raised |-> FALSE] :
            r \in stub_response(prompt)}

call_model_env(openai, has_key, prompt, remote) ==
    IF openai
    THEN UNION {IF a.raised
                THEN {[reply |-> r, usage |-> Usage(0, 0),
                       path |-> "fallback", cause |-> a.error,
                       raised |-> FALSE] : r \in stub_response(prompt)}
                ELSE {[reply |-> a.reply, usage |-> a.usage,
                       path |-> "remote", cause |-> None, raised |-> FALSE]} :
                a \in remote_attempt(has_key, remote)}
    ELSE {[reply |-> r, usage |-> Usage(stub_tokens(r), stub_tokens(r)),
           path |-> "stub", cause |-> None, raised |-> FALSE] :
            r \in stub_response(prompt)}

\* call_model as the patterns call it, in the environment of the process.
call_model(openai, prompt, remote) ==
    call_model_env(openai, api_key, prompt, remote)

\* Inputs of direct calls: lists of message contents (the roles play no
\* part in the stub), and the texts the remote API can answer with.
SystemText == "You write marketing copy."

Prompts ==
    {"Write marketing copy for shoes", "Translate this to es: Buy now",
     "Write a very short story outline about a lighthouse.", "hello"}

MessageLists ==
    {<<q>> : q \in Prompts} \cup {<<SystemText, "hello">>}

RemoteReplies == {"Sure.", "OK"}

MaxCalls == 2

GatewayParked == cm_calls = <<>>

\* The process environment has been set; nothing has been called.
GatewayInit ==
    /\ GatewayParked
    /\ use_openai \in BOOLEAN
    /\ api_key \in BOOLEAN

\* One call of call_model(messages), to its return statement.
CallModel(messages) ==
    /\ Len(cm_calls) < MaxCalls
    /\ \E out \in call_model(use_openai, messages[Len(messages)], RemoteReplies) :
         cm_calls' = Append(cm_calls, [messages |-> messages, out |-> out])
    /\ UNCHANGED api_key
    /\ UNCHANGED GatewayOthers

GatewayNext == \E messages \in MessageLists : CallModel(messages)

(***************************************************************************)
(* agentic_patterns/judge_loop.py                                          *)
(***************************************************************************)
EvaluationFeedback(fb, score) == [feedback |-> fb, score |-> score]

\* `evaluation` before the loop has assigned it.
UnboundEvaluation == [feedback |-> None, score |-> "<unbound>"]

\* The prompt built by generate_outline.
outline_prompt(t, fb) ==
    IF fb # ""
    THEN "Write a very short story outline about " \o t
           \o ". Improve based on feedback: " \o fb
    ELSE "Write a very short story outline about " \o t \o "."

\* Texts the remote API can answer an outline prompt with.
RemoteOutlines ==
    { "A mysterious detective follows an unexpected trail across the sleeping city.",
      "A quiet farmer plants a tree." }

\* generate_outline: the replies it can return.
generate_outline(openai, t, fb) ==
    {r.reply : r \in call_model(openai, outline_prompt(t, fb), RemoteOutlines)}

JudgeKeywords == <<"unexpected", "mysterious", "detective">>

\* JudgeLoop.evaluate
evaluate_silent_reject(o) ==
    LET f(x) ==
          IF /\ word_count(x) > 8
             /\ \E w \in 1..Len(JudgeKeywords) :
                  contains(lower(x), JudgeKeywords[w])
          THEN EvaluationFeedback("", "pass")
          ELSE EvaluationFeedback("", "needs_improvement")
    IN Strict(f, o)

evaluate(o) ==
    LET f(x) ==
          IF /\ word_count(x) > 8
             /\ \E w \in 1..Len(JudgeKeywords) :
                  contains(lower(x), JudgeKeywords[w])
          THEN EvaluationFeedback("", "pass")
          ELSE EvaluationFeedback("Add an element of mystery",
                                  "needs_improvement")
    IN Strict(f, o)

\* range(1, self.max_iterations + 1): its stop value.
range_stop_one_more(maxIt) == maxIt + 2

range_stop(maxIt) == maxIt + 1

\* Where run goes after the evaluation of iteration `it`: `break` on a pass,
\* the next iteration while the range lasts, else out of the loop.
after_evaluation_no_break(ev, it, maxIt) ==
    IF it + 1 < range_stop(maxIt) THEN "generate" ELSE "return"

after_evaluation(ev, it, maxIt) ==
    IF ev.score = "pass" THEN "return"
    ELSE IF it + 1 < range_stop(maxIt) THEN "generate" ELSE "return"

\* `feedback = evaluation.feedback`, reached when the verdict is not a pass.
next_feedback_kept(fb, ev) == fb

next_feedback(fb, ev) == ev.feedback

\* The dict returned by run.
run_result_verdict_feedback(o, ev, it, fb, path) ==
    [outline |-> o, passed |-> (ev.score = "pass"), iterations |-> it,
     feedback |-> ev.feedback, trace_file |-> path]

run_result(o, ev, it, fb, path) ==
    [outline |-> o, passed |-> (ev.score = "pass"), iterations |-> it,
     feedback |-> fb, trace_file |-> path]

\* Inputs.
MaxIterations == 3
DefaultMaxIterations == 5
IterationLimits == (-1)..MaxIterations

Topics == {"a lighthouse", "translate: a detective", "the perfect headline"}

JudgeParked ==
    /\ jl_pc = "idle"
    /\ topic = None
    /\ iteration = 0
    /\ outline = None
    /\ feedback = None
    /\ evaluation = UnboundEvaluation
    /\ gen_calls = <<>>
    /\ eval_calls = <<>>
    /\ jl_events = <<>>
    /\ jl_store = <<>>
    /\ jl_result = NoResult
    /\ jl_error = None
    /\ gen_failures = 0

\* JudgeLoop(max_iterations) has been constructed.
JudgeInit ==
    /\ JudgeParked
    /\ max_iterations \in IterationLimits

\* run up to the for statement.
JLRun(t) ==
    /\ jl_pc = "idle"
    /\ topic' = t
    /\ jl_events' = tracer_log(<<>>, "user", "client", t)
    /\ feedback' = ""
    /\ outline' = ""
    /\ IF 1 < range_stop(max_iterations)
       THEN iteration' = 1 /\ jl_pc' = "generate"
       ELSE iteration' = 0 /\ jl_pc' = "return"
    /\ UNCHANGED <<max_iterations, evaluation, gen_calls, eval_calls,
                   jl_store, jl_result, jl_error, gen_failures>>
    /\ UNCHANGED JudgeOthers

\* `outline = await self.generate_outline(topic, feedback)` and its log.
JLGenerate ==
    /\ jl_pc = "generate"
    /\ \E reply \in generate_outline(use_openai, topic, feedback) :
         /\ outline' = reply
         /\ gen_calls' = Append(gen_calls,
                                [iteration |-> iteration, feedback |-> feedback,
                                 reply |-> reply])
         /\ jl_events' = tracer_log(jl_events, "agent", "generator",
                                    "Iteration " \o ToString(iteration)
                                      \o ": " \o reply)
    /\ jl_pc' = "evaluate"
    /\ UNCHANGED <<max_iterations, topic, iteration, feedback, evaluation,
                   eval_calls, jl_store, jl_result, jl_error, gen_failures>>
    /\ UNCHANGED JudgeOthers

\* `evaluation = self.evaluate(outline)`, its log, and the rest of the loop
\* body.
JLEvaluate ==
    /\ jl_pc = "evaluate"
    /\ LET ev     == evaluate(outline)
           logged == tracer_log(jl_events, "agent", "evaluator",
                                "Evaluation: " \o ev.score \o " - " \o ev.feedback)
       IN /\ evaluation' = ev
          /\ eval_calls' = Append(eval_calls,
                                  [iteration |-> iteration, outline |-> outline,
                                   score |-> ev.score, feedback |-> ev.feedback])
          /\ jl_events' =
               IF ev.score = "pass"
               THEN tracer_log(logged, "agent", "loop",
                               "Outline approved on iteration "
                                 \o ToString(iteration))
               ELSE logged
          /\ feedback' = IF ev.score = "pass" THEN feedback
                         ELSE next_feedback(feedback, ev)
          /\ jl_pc' = after_evaluation(ev, iteration, max_iterations)
          /\ iteration' =
               IF after_evaluation(ev, iteration, max_iterations) = "generate"
               THEN iteration + 1 ELSE iteration
    /\ UNCHANGED <<max_iterations, topic, outline, gen_calls, jl_store,
                   jl_result, jl_error, gen_failures>>
    /\ UNCHANGED JudgeOthers

\* `trace_path = tracer.finalize()` and the return statement, which reads
\* `evaluation` and `iteration`.
JLReturn ==
    /\ jl_pc = "return"
    /\ jl_store' = jl_store \o jl_events
    /\ jl_events' = <<>>
    /\ IF evaluation = UnboundEvaluation
       THEN /\ jl_pc' = "error"
            /\ jl_error' = "UnboundLocalError"
            /\ UNCHANGED jl_result
       ELSE /\ jl_pc' = "done"
            /\ jl_result' = run_result(outline, evaluation, iteration,
                                       feedback, TracePath)
            /\ UNCHANGED jl_error
    /\ UNCHANGED <<max_iterations, topic, iteration, outline, feedback,
                   evaluation, gen_calls, eval_calls, gen_failures>>
    /\ UNCHANGED JudgeOthers

JudgeNext ==
    \/ \E t \in Topics : JLRun(t)
    \/ JLGenerate
    \/ JLEvaluate
    \/ JLReturn

\* Where run goes when `await self.generate_outline(...)` raises: the
\* statement is in no try statement, neither in run nor in generate_outline,
\* so the exception leaves run.
after_generation_error_skips_step(it, maxIt) ==
    IF it + 1 < range_stop(maxIt) THEN "generate" ELSE "return"

after_generation_error(it, maxIt) == "error"

\* The generation call of this iteration raises.  call_model turns the
\* errors of the remote backend into stub replies, so what raises here is a
\* call_model that was replaced by the caller's own, or an exception that
\* `except Exception` does not catch.
JLGenerateRaises ==
    /\ jl_pc = "generate"
    /\ gen_failures' = gen_failures + 1
    /\ LET nxt == after_generation_error(iteration, max_iterations)
       IN /\ jl_pc' = nxt
          /\ jl_error' = IF nxt = "error" THEN "GenerationError" ELSE jl_error
          /\ iteration' = IF nxt = "generate" THEN iteration + 1 ELSE iteration
    /\ UNCHANGED <<max_iterations, topic, outline, feedback, evaluation,
                   gen_calls, eval_calls, jl_events, jl_store, jl_result>>
    /\ UNCHANGED JudgeOthers

JudgeFaultyNext ==
    \/ JudgeNext
    \/ JLGenerateRaises

\* Outlines for direct calls of evaluate: every text of up to MaxWords
\* words over two words, one of them a keyword in capitals, and texts with
\* other spacing and with a keyword inside a longer word.
MaxWords == 10

OutlineWords == {"plot", "DETECTIVE"}

RECURSIVE WordTexts(_)
WordTexts(n) ==
    IF n = 0 THEN {""}
    ELSE IF n = 1 THEN OutlineWords
    ELSE {w \o " " \o t : w \in OutlineWords, t \in WordTexts(n - 1)}

OtherOutlines ==
    {"  a   b  c d e f g h  unexpectedly ", "a b c d e f g h i",
     "a\nb\tc d e f g h mysterious", "unexpected mysterious detective"}

Outlines == UNION {WordTexts(n) : n \in 0..MaxWords} \cup OtherOutlines

\* loop.evaluate(o), called by a caller of its own.
EvaluateCall(o) ==
    /\ jl_pc = "idle"
    /\ LET ev == evaluate(o)
       IN /\ evaluation' = ev
          /\ eval_calls' = Append(eval_calls,
                                  [iteration |-> iteration, outline |-> o,
                                   score |-> ev.score, feedback |-> ev.feedback])
    /\ jl_pc' = "evaluated"
    /\ UNCHANGED <<max_iterations, topic, iteration, outline, feedback,
                   gen_calls, jl_events, jl_store, jl_result, jl_error,
                   gen_failures>>
    /\ UNCHANGED JudgeOthers

EvaluateNext == \E o \in Outlines : EvaluateCall(o)

(***************************************************************************)
(* agentic_patterns/parallel.py                                            *)
(***************************************************************************)
\* The number of translate_once calls handed to asyncio.gather.
NumAttempts == 3

\* The prompt built by translate_once.
translate_prompt(lang, msg) == "Translate this to " \o lang \o ": " \o msg

\* Texts the remote API can answer a translation prompt with.
RemoteTranslations == {"Comprar ahora", "Compra ahora", "Compre ya"}

\* translate_once: the replies it can return.
translate_once(openai, lang, msg) ==
    {r.reply : r \in call_model(openai, translate_prompt(lang, msg),
                                RemoteTranslations)}

\* Counter(translations): its keys in insertion order, and its items.
RECURSIVE counter_keys(_)
counter_keys(seq) ==
    IF seq = <<>> THEN <<>>
    ELSE LET init == counter_keys(SubSeq(seq, 1, Len(seq) - 1))
             last == seq[Len(seq)]
         IN IF \E i \in 1..Len(init) : init[i] = last
            THEN init ELSE Append(init, last)

Counter(seq) ==
    [k \in 1..Len(counter_keys(seq)) |->
       <<counter_keys(seq)[k],
         Cardinality({i \in 1..Len(seq) : seq[i] = counter_keys(seq)[k]})>>]

\* counter.most_common(1)[0]: max over the items by count; max keeps the
\* first of several maximal items.
RECURSIVE most_common_1_last_wins(_)
most_common_1_last_wins(items) ==
    IF Len(items) = 1 THEN items[1]
    ELSE LET m == most_common_1_last_wins(SubSeq(items, 1, Len(items) - 1))
             x == items[Len(items)]
         IN IF x[2] >= m[2] THEN x ELSE m

RECURSIVE most_common_1(_)
most_common_1(items) ==
    IF Len(items) = 1 THEN items[1]
    ELSE LET m == most_common_1(SubSeq(items, 1, Len(items) - 1))
             x == items[Len(items)]
         IN IF x[2] > m[2] THEN x ELSE m

\* Inputs.
Languages == {"es", "fr"}
Messages == {"Buy now", "Good night"}

\* await asyncio.gather(c1, c2, c3), return_exceptions left at False, once
\* every call has finished: the list of replies, or the exception of a call
\* that raised.
gather_outcome_partial(replies, failures) ==
    IF replies = <<>> THEN "raise" ELSE "return"

gather_outcome(replies, failures) ==
    IF failures = {} THEN "return" ELSE "raise"

ParParked ==
    /\ par_pc = "idle"
    /\ par_message = None
    /\ translations = <<>>
    /\ par_result = NoResult
    /\ par_failures = {}
    /\ par_error = None
    /\ par_trace = <<>>

\* ParallelTranslation(target_language) has been constructed.
ParInit ==
    /\ ParParked
    /\ target_language \in Languages

\* The translate_once calls of the gather that have finished, by returning
\* or by raising.
calls_finished == Len(translations) + Cardinality(par_failures)

\* One entry of the history of the calls: the call at position `attempt` of
\* the gather began, returned `reply`, or raised.
AttemptEvent(attempt, at, reply) == [attempt |-> attempt, at |-> at, reply |-> reply]

\* The calls that have begun, and those of them that have not finished.
Begun == {par_trace[n].attempt : n \in {m \in 1..Len(par_trace) : par_trace[m].at = "start"}}

Running ==
    {i \in Begun : ~\E n \in 1..Len(par_trace) :
                       par_trace[n].attempt = i /\ par_trace[n].at # "start"}

\* Whether the event loop may start the next coroutine of the gather: it
\* runs one coroutine at a time, and a coroutine gives control back only at
\* an await or when it ends.  translate_once has no await, so the next one
\* starts only when none is under way.
may_start_next_during_call(running) == TRUE

may_start_next(running) == running = {}

\* run up to asyncio.gather.
ParRun(msg) ==
    /\ par_pc = "idle"
    /\ par_pc' = "gather"
    /\ par_message' = msg
    /\ translations' = <<>>
    /\ par_trace' = <<>>
    /\ UNCHANGED <<target_language, par_result, par_failures, par_error>>
    /\ UNCHANGED ParOthers

\* The event loop starts the next coroutine handed to gather, in the order
\* handed: translate_once builds its prompt and calls the model.
ParBegin ==
    /\ par_pc = "gather"
    /\ Cardinality(Begun) < NumAttempts
    /\ may_start_next(Running)
    /\ par_trace' = Append(par_trace,
                           AttemptEvent(Cardinality(Begun) + 1, "start", None))
    /\ UNCHANGED <<par_pc, target_language, par_message, translations,
                   par_result, par_failures, par_error>>
    /\ UNCHANGED ParOthers

\* The model replies and translate_once returns the reply.
ParTranslateOnce ==
    /\ par_pc = "gather"
    /\ \E i \in Running :
         \E reply \in translate_once(use_openai, target_language, par_message) :
           /\ translations' = Append(translations, reply)
           /\ par_trace' = Append(par_trace, AttemptEvent(i, "end", reply))
    /\ UNCHANGED <<par_pc, target_language, par_message, par_result,
                   par_failures, par_error>>
    /\ UNCHANGED ParOthers

\* The call_model of a translate_once raises (see JLGenerateRaises for how
\* that comes about).  The coroutines that were handed to gather after it
\* still run.
ParTranslateRaises ==
    /\ par_pc = "gather"
    /\ \E i \in Running :
         /\ par_failures' = par_failures \cup {i}
         /\ par_trace' = Append(par_trace, AttemptEvent(i, "raised", None))
    /\ UNCHANGED <<par_pc, target_language, par_message, translations,
                   par_result, par_error>>
    /\ UNCHANGED ParOthers

\* gather raises the exception of the call that raised, and run, which has
\* no try statement, raises it to its caller.
ParGatherRaises ==
    /\ par_pc = "gather"
    /\ calls_finished = NumAttempts
    /\ gather_outcome(translations, par_failures) = "raise"
    /\ par_pc' = "error"
    /\ par_error' = "GenerationError"
    /\ UNCHANGED <<target_language, par_message, translations, par_result,
                   par_failures, par_trace>>
    /\ UNCHANGED ParOthers

\* gather returns, and run votes and returns.
ParVote ==
    /\ par_pc = "gather"
    /\ calls_finished = NumAttempts
    /\ gather_outcome(translations, par_failures) = "return"
    /\ par_result' = [input        |-> par_message,
                      translations |-> translations,
                      best         |-> most_common_1(Counter(translations))[1]]
    /\ par_pc' = "done"
    /\ UNCHANGED <<target_language, par_message, translations, par_failures,
                   par_error, par_trace>>
    /\ UNCHANGED ParOthers

ParNext ==
    \/ \E msg \in Messages : ParRun(msg)
    \/ ParBegin
    \/ ParTranslateOnce
    \/ ParVote

ParFaultyNext ==
    \/ ParNext
    \/ ParTranslateRaises
    \/ ParGatherRaises

(***************************************************************************)
(* utils/tracing.py: a Tracer used directly.                               *)
(***************************************************************************)
\* Tracer.finalize: the file is opened for appending, every buffered event
\* is written as one line, the buffer is reset, the path is returned.
tracer_finalize_keeps_buffer(events, store) ==
    [store |-> store \o events, events |-> events, path |-> TracePath]

tracer_finalize(events, store) ==
    [store |-> store \o events, events |-> <<>>, path |-> TracePath]

\* Inputs: contents logged, and what the file of this task_id holds when the
\* Tracer is constructed (nothing, or the lines of an earlier Tracer of the
\* same task_id).
Contents == {"alpha", "beta"}
EarlierStores == {<<>>, <<TraceEvent("user", "client", "earlier run")>>}

\* The number of log and finalize calls explored.
MaxTracerCalls == 5

TracerParked ==
    /\ tr_events = <<>>
    /\ tr_store = <<>>
    /\ tr_finalized = <<>>
    /\ tr_logged = <<>>

\* Tracer(task_id) has been constructed.
TracerInit ==
    /\ tr_events = <<>>
    /\ tr_store \in EarlierStores
    /\ tr_finalized = <<>>
    /\ tr_logged = <<>>

TracerLog(content) ==
    /\ Len(tr_logged) + Len(tr_finalized) < MaxTracerCalls
    /\ tr_events' = tracer_log(tr_events, "agent", "worker", content)
    /\ tr_logged' = Append(tr_logged, TraceEvent("agent", "worker", content))
    /\ UNCHANGED <<tr_store, tr_finalized>>
    /\ UNCHANGED TracerOthers

TracerFinalize ==
    /\ Len(tr_logged) + Len(tr_finalized) < MaxTracerCalls
    /\ LET after == tracer_finalize(tr_events, tr_store)
       IN /\ tr_store' = after.store
          /\ tr_events' = after.events
          /\ tr_finalized' = Append(tr_finalized,
                                    [path |-> after.path,
                                     written |-> Len(after.store) - Len(tr_store)])
    /\ UNCHANGED tr_logged
    /\ UNCHANGED TracerOthers

TracerNext ==
    \/ \E content \in Contents : TracerLog(content)
    \/ TracerFinalize

(***************************************************************************)
(* utils/memory.py: SlidingWindowMemory.                                   *)
(***************************************************************************)
\* deque(maxlen=n).append(x): a full deque drops its leftmost item.
deque_append_drops_newest(buf, maxlen, x) ==
    IF Len(buf) = maxlen THEN buf ELSE Append(buf, x)

deque_append(buf, maxlen, x) ==
    IF Len(buf) = maxlen THEN Append(Tail(buf), x) ELSE Append(buf, x)

\* "\n".join(self.buffer)
context(buf) == join_lines(buf)

\* Inputs.
\* The largest window explored, and enough add calls to overflow it twice.
MaxWindow == 3
MaxAdds == MaxWindow + 2
WindowLengths == (-1)..MaxWindow
Texts == {"hi", "yo"}

MemoryParked ==
    /\ mem_pc = "new"
    /\ max_length = 5
    /\ buffer = <<>>
    /\ mem_error = None
    /\ added = <<>>

\* The caller is about to evaluate SlidingWindowMemory(max_length).
MemoryInit ==
    /\ mem_pc = "new"
    /\ max_length \in WindowLengths
    /\ buffer = <<>>
    /\ mem_error = None
    /\ added = <<>>

\* __init__
MemConstruct ==
    /\ mem_pc = "new"
    /\ IF max_length <= 0
       THEN mem_pc' = "raised" /\ mem_error' = "ValueError"
       ELSE mem_pc' = "ready" /\ UNCHANGED mem_error
    /\ UNCHANGED <<max_length, buffer, added>>
    /\ UNCHANGED MemoryOthers

\* add(text)
MemAdd(text) ==
    /\ mem_pc = "ready"
    /\ Len(added) < MaxAdds
    /\ buffer' = deque_append(buffer, max_length, text)
    /\ added' = Append(added, text)
    /\ UNCHANGED <<mem_pc, max_length, mem_error>>
    /\ UNCHANGED MemoryOthers

MemoryNext ==
    \/ MemConstruct
    \/ \E text \in Texts : MemAdd(text)

(***************************************************************************)
(* agentic_patterns/router.py                                              *)
(***************************************************************************)
\* detect(message): with langdetect it returns some language code or raises
\* (a text without features); the fallback detector returns "en".
DetectedCodes == {"en", "es", "de"}

detect(installed) ==
    IF installed
    THEN {[raised |-> FALSE, lang |-> c] : c \in DetectedCodes}
           \cup {[raised |-> TRUE, lang |-> None]}
    ELSE {[raised |-> FALSE, lang |-> "en"]}

\* The handlers of the class, and one of the caller's own.
RouterHandlers ==
    {"_handle_english", "_handle_spanish", "_handle_french", "custom_handler"}

\* Texts the remote API can answer the handlers' prompt with.
RemoteEnglish == {"Hello"}

handler_prompt(text) == "Translate this to English: " \o text

\* handler(message): the strings the handler can return.
call_handler(handler, openai, text) ==
    CASE handler = "_handle_english" -> {"[en] " \o text}
      [] handler = "_handle_spanish" ->
           {"[es] " \o r.reply :
              r \in call_model(openai, handler_prompt(text), RemoteEnglish)}
      [] handler = "_handle_french" ->
           {"[fr] " \o r.reply :
              r \in call_model(openai, handler_prompt(text), RemoteEnglish)}
      [] handler = "custom_handler" -> {"[custom] " \o text}

\* self.handlers.get(lang)
handlers_get_english_default(table, lang) ==
    IF lang \in DOMAIN table THEN table[lang] ELSE table["en"]

handlers_get(table, lang) ==
    IF lang \in DOMAIN table THEN table[lang] ELSE None

\* self.handlers[lang_code] = handler
register_handler(table, lang_code, handler) ==
    [c \in DOMAIN table \cup {lang_code} |->
       IF c = lang_code THEN handler ELSE table[c]]

\* self.handlers as __init__ leaves it.
DefaultHandlers ==
    register_handler(
      register_handler(
        register_handler(<<>>, "en", "_handle_english"),
        "es", "_handle_spanish"),
      "fr", "_handle_french")

\* Inputs: the language codes a caller registers handlers for, the handlers
\* it registers, and the messages it routes.
RegisteredCodes == {"en", "de"}
RegisteredHandlers == {"custom_handler", "_handle_english"}
RouterMessages == {"Hola", "Buy now"}

\* The number of register_handler and handle calls explored.
MaxRouterCalls == 3

RouterOp(op, code, handler, text, detected, called, result) ==
    [op |-> op, code |-> code, handler |-> handler, message |-> text,
     detected |-> detected, called |-> called, result |-> result]

RouterParked ==
    /\ langdetect = FALSE
    /\ handlers = DefaultHandlers
    /\ rt_ops = <<>>

\* Router() has been constructed.
RouterInit ==
    /\ langdetect \in BOOLEAN
    /\ handlers = DefaultHandlers
    /\ rt_ops = <<>>

RouterRegister(lang_code, handler) ==
    /\ Len(rt_ops) < MaxRouterCalls
    /\ handlers' = register_handler(handlers, lang_code, handler)
    /\ rt_ops' = Append(rt_ops, RouterOp("register", lang_code, handler,
                                         None, None, None, None))
    /\ UNCHANGED langdetect
    /\ UNCHANGED RouterOthers

\* handle(message), to its return statement.
RouterHandle(text) ==
    /\ Len(rt_ops) < MaxRouterCalls
    /\ \E d \in detect(langdetect) :
         LET lang    == IF d.raised THEN "unknown" ELSE d.lang
             handler == handlers_get(handlers, lang)
         IN \E result \in (IF handler # None
                           THEN call_handler(handler, use_openai, text)
                           ELSE {"[unknown] " \o text}) :
              rt_ops' = Append(rt_ops,
                               RouterOp("handle", None, None, text,
                                        IF d.raised THEN "<raised>" ELSE d.lang,
                                        handler, result))
    /\ UNCHANGED <<langdetect, handlers>>
    /\ UNCHANGED RouterOthers

RouterNext ==
    \/ \E c \in RegisteredCodes, h \in RegisteredHandlers : RouterRegister(c, h)
    \/ \E text \in RouterMessages : RouterHandle(text)

(***************************************************************************)
(* utils/memory.py: EntityMemory.                                          *)
(***************************************************************************)
Digits == "0123456789"

CharIn(c, alphabet) == \E i \in 1..Len(alphabet) : CharAt(alphabet, i) = c

IsAlnum(c) == CharIn(c, UpperCase) \/ CharIn(c, LowerCase) \/ CharIn(c, Digits)

\* \w of the regular expression, on the characters of the texts here.
IsWordChar(c) == IsAlnum(c) \/ c = "_"

\* The matches of \b([A-Z][a-zA-Z0-9]{2,})\b in a text: the runs of letters
\* and digits that begin with a capital at a word boundary, are at least
\* three long and end at a word boundary.
capitalised_tokens(text) ==
    LET f(x) ==
          LET other  == {k \in 1..Len(x) : ~IsAlnum(CharAt(x, k))}
              starts == {i \in 1..Len(x) :
                           /\ CharIn(CharAt(x, i), UpperCase)
                           /\ (i = 1 \/ ~IsWordChar(CharAt(x, i - 1)))}
              end(i) == IF {k \in other : k > i} = {} THEN Len(x)
                        ELSE SetMin({k \in other : k > i}) - 1
          IN {SubSeq(x, i, end(i)) :
                i \in {j \in starts :
                         /\ end(j) - j + 1 >= 3
                         /\ (end(j) = Len(x) \/ ~IsWordChar(CharAt(x, end(j) + 1)))}}
    IN Strict(f, text)

\* EntityMemory.ingest
ingest(known, text) == known \cup capitalised_tokens(text)

\* The order of str: by code point, on the characters of the tokens.
CodePointOrder == Digits \o UpperCase \o "_" \o LowerCase

Rank(c) == CHOOSE i \in 1..Len(CodePointOrder) : CharAt(CodePointOrder, i) = c

StrLess(a, b) ==
    LET shorter == IF Len(a) < Len(b) THEN Len(a) ELSE Len(b)
        differ  == {i \in 1..shorter : CharAt(a, i) # CharAt(b, i)}
    IN IF differ = {} THEN Len(a) < Len(b)
       ELSE Rank(CharAt(a, SetMin(differ))) < Rank(CharAt(b, SetMin(differ)))

\* sorted(set of str)
RECURSIVE sorted(_)
sorted(S) ==
    IF S = {} THEN <<>>
    ELSE LET least == CHOOSE x \in S : \A y \in S \ {x} : StrLess(x, y)
         IN <<least>> \o sorted(S \ {least})

\* sep.join(seq)
RECURSIVE join(_, _)
join(sep, seq) ==
    IF seq = <<>> THEN ""
    ELSE IF Len(seq) = 1 THEN seq[1]
    ELSE seq[1] \o sep \o join(sep, Tail(seq))

\* EntityMemory.context
entities_context(known) ==
    IF known = {} THEN ""
    ELSE "Known entities: " \o join(", ", sorted(known))

(***************************************************************************)
(* agentic_patterns/sequential_chain.py                                    *)
(***************************************************************************)
\* The pydantic models MarketingCopy, ValidationResult and TranslatedCopy.
marketing_copy(headline, body, call_to_action) ==
    [headline |-> headline, body |-> body, call_to_action |-> call_to_action]

ValidationResult(is_valid, fb) == [is_valid |-> is_valid, feedback |-> fb]

TranslatedCopy(original, translated_headline, translated_body, translated_cta) ==
    [original |-> original, translated_headline |-> translated_headline,
     translated_body |-> translated_body,
     translated_call_to_action |-> translated_cta]

\* repr of a str without quote characters, and of a bool.
py_repr(text) == "'" \o join("\\n", split(text, "\n")) \o "'"

bool_repr(b) == IF b THEN "True" ELSE "False"

\* str of the dict of each model.
copy_dict(c) ==
    "{'headline': " \o py_repr(c.headline) \o ", 'body': " \o py_repr(c.body)
      \o ", 'call_to_action': " \o py_repr(c.call_to_action) \o "}"

validation_dict(v) ==
    "{'is_valid': " \o bool_repr(v.is_valid) \o ", 'feedback': "
      \o py_repr(v.feedback) \o "}"

translated_dict(t) ==
    "{'original': " \o copy_dict(t.original)
      \o ", 'translated_headline': " \o py_repr(t.translated_headline)
      \o ", 'translated_body': " \o py_repr(t.translated_body)
      \o ", 'translated_call_to_action': " \o py_repr(t.translated_call_to_action)
      \o "}"

generation_prompt(description) ==
    "Create a catchy marketing headline, body and call to action for: "
      \o description

\* Step 1 of run, after the reply: the copy built from it.
copy_of(response) ==
    marketing_copy(strip(split(response, ".")[1]), response, "Learn more")

MaxHeadline == 60
MinBody == 100
ActionWords == {"buy", "learn", "try", "get", "start"}

\* Step 2 of run: the three checks and the ValidationResult built from them.
validate(c) ==
    LET long_headline == Len(c.headline) > MaxHeadline
        short_body    == Len(c.body) < MinBody
        no_action     == ~\E phrase \in ActionWords :
                             contains(lower(c.call_to_action), phrase)
        feedback_messages ==
            (IF long_headline
             THEN <<"Headline is too long (max 60 characters).">> ELSE <<>>)
            \o (IF short_body
                THEN <<"Body is too short (min 100 characters).">> ELSE <<>>)
            \o (IF no_action
                THEN <<"Call to action should include an action word like buy, learn or try.">>
                ELSE <<>>)
    IN ValidationResult(~long_headline /\ ~short_body /\ ~no_action,
                        IF feedback_messages # <<>>
                        THEN join_lines(feedback_messages)
                        ELSE "All checks passed!")

\* The condition of step 3.
translation_due_always(v) == TRUE

translation_due(v) == v.is_valid

\* The prompt built by translate_text.
phrase_prompt(lang, text) ==
    "Translate this marketing phrase to " \o lang \o ": " \o text

\* The texts step 3 hands to translate_text, in the order of its calls.
parts_of(c) == <<c.headline, c.body, c.call_to_action>>

\* Inputs: what the caller passes, and what the remote API can answer a
\* generation prompt and a translation prompt with.
ProductDescriptions == {"a solar lamp", "shoes"}
ChainLanguages == {"es", "fr"}
\* The default of the argument memory_size of __init__.
DefaultMemorySize == 4
MemorySizes == {2, DefaultMemorySize}
RemoteCopies ==
    { "Light up your nights. The Sunny lamp charges by day and glows all "
        \o "night long, with no wires and no bills ever again.",
      "Step ahead. Shoes that last.",
      "The one and only lamp that charges by day and glows all night long "
        \o "with no wires and no bills ever again" }
RemotePhrases == {"Ilumina tus noches", "Compra ahora"}

ChainCall(step, prompt, reply) == [step |-> step, prompt |-> prompt, reply |-> reply]

ChainParked ==
    /\ sc_pc = "idle"
    /\ sc_memory = <<>>
    /\ entities = {}
    /\ product_description = None
    /\ sc_language = None
    /\ sc_copy = NoResult
    /\ validation_result = NoResult
    /\ sc_parts = <<>>
    /\ sc_calls = <<>>
    /\ sc_events = <<>>
    /\ sc_store = <<>>
    /\ sc_result = NoResult

\* SequentialChain.__init__
ChainInit ==
    /\ ChainParked
    /\ memory_size \in MemorySizes

\* run on a newly constructed chain, up to the first call of the model.
SCRun(description, lang) ==
    /\ UNCHANGED ChainOthers
    /\ sc_pc = "idle"
    /\ sc_pc' = "generating"
    /\ product_description' = description
    /\ sc_language' = lang
    /\ sc_events' = tracer_log(<<>>, "user", "client", generation_prompt(description))
    /\ sc_copy' = NoResult
    /\ validation_result' = NoResult
    /\ sc_parts' = <<>>
    /\ sc_calls' = <<>>
    /\ sc_result' = NoResult
    /\ UNCHANGED <<sc_memory, memory_size, entities, sc_store>>

\* Step 1: the reply of the model becomes the copy.
SCGenerate ==
    /\ UNCHANGED ChainOthers
    /\ sc_pc = "generating"
    /\ \E out \in call_model(use_openai, generation_prompt(product_description),
                             RemoteCopies) :
         /\ sc_calls' = Append(sc_calls,
                               ChainCall("generate",
                                         generation_prompt(product_description),
                                         out.reply))
         /\ sc_copy' = copy_of(out.reply)
         /\ sc_events' = tracer_log(sc_events, "agent", "generator",
                                    "Generated copy: " \o copy_dict(copy_of(out.reply)))
         /\ sc_memory' = deque_append(sc_memory, memory_size, out.reply)
         /\ entities' = ingest(entities, copy_of(out.reply).headline)
    /\ sc_pc' = "validating"
    /\ UNCHANGED <<memory_size, product_description, sc_language,
                   validation_result, sc_parts, sc_store, sc_result>>

\* Step 2.
SCValidate ==
    /\ UNCHANGED ChainOthers
    /\ sc_pc = "validating"
    /\ validation_result' = validate(sc_copy)
    /\ sc_events' = tracer_log(sc_events, "agent", "validator",
                               "Validation result: " \o validation_dict(validate(sc_copy)))
    /\ sc_memory' = deque_append(sc_memory, memory_size, validate(sc_copy).feedback)
    /\ sc_pc' = IF translation_due(validate(sc_copy)) THEN "translating" ELSE "returning"
    /\ UNCHANGED <<memory_size, entities, product_description, sc_language,
                   sc_copy, sc_parts, sc_calls, sc_store, sc_result>>

\* Step 3: one call of translate_text; after the third, the TranslatedCopy.
SCTranslate ==
    /\ UNCHANGED ChainOthers
    /\ sc_pc = "translating"
    /\ LET text == parts_of(sc_copy)[Len(sc_parts) + 1]
       IN \E out \in call_model(use_openai, phrase_prompt(sc_language, text),
                                RemotePhrases) :
            /\ sc_calls' = Append(sc_calls,
                                  ChainCall("translate",
                                            phrase_prompt(sc_language, text),
                                            out.reply))
            /\ sc_parts' = Append(sc_parts, out.reply)
    /\ IF Len(sc_parts') = Len(parts_of(sc_copy))
       THEN /\ sc_events' =
                 tracer_log(sc_events, "agent", "translator",
                            "Translated copy: "
                              \o translated_dict(TranslatedCopy(sc_copy, sc_parts'[1],
                                                                sc_parts'[2], sc_parts'[3])))
            /\ sc_memory' = deque_append(sc_memory, memory_size, sc_parts'[2])
            /\ entities' = ingest(entities, sc_parts'[1])
            /\ sc_pc' = "returning"
       ELSE UNCHANGED <<sc_events, sc_memory, entities, sc_pc>>
    /\ UNCHANGED <<memory_size, product_description, sc_language, sc_copy,
                   validation_result, sc_store, sc_result>>

\* The trace is finalised and the result returned.
SCReturn ==
    /\ UNCHANGED ChainOthers
    /\ sc_pc = "returning"
    /\ sc_pc' = "done"
    /\ sc_store' = tracer_finalize(sc_events, sc_store).store
    /\ sc_events' = tracer_finalize(sc_events, sc_store).events
    /\ sc_result' =
         [original_copy |-> sc_copy,
          validation |-> validation_result,
          translated_copy |->
              IF sc_parts # <<>>
              THEN TranslatedCopy(sc_copy, sc_parts[1], sc_parts[2], sc_parts[3])
              ELSE NoResult,
          entities |-> entities_context(entities),
          trace_file |-> tracer_finalize(sc_events, sc_store).path]
    /\ UNCHANGED <<sc_memory, memory_size, entities, product_description,
                   sc_language, sc_copy, validation_result, sc_parts, sc_calls>>

ChainNext ==
    \/ \E description \in ProductDescriptions, lang \in ChainLanguages :
         SCRun(description, lang)
    \/ SCGenerate
    \/ SCValidate
    \/ SCTranslate
    \/ SCReturn

(***************************************************************************)
(* Specifications: one per pattern, the other patterns at rest.            *)
(***************************************************************************)
MoreParked == RouterParked /\ ChainParked /\ memory_size = DefaultMemorySize

UtilsParked == GatewayParked /\ TracerParked /\ MemoryParked /\ MoreParked

SpecOrchInit ==
    /\ OrchInit
    /\ JudgeParked /\ max_iterations = DefaultMaxIterations
    /\ ParParked /\ target_language = "es"
    /\ use_openai = FALSE /\ api_key = FALSE
    /\ UtilsParked

SpecOrch == SpecOrchInit /\ [][OrchNext]_vars

SpecJudgeInit ==
    /\ JudgeInit
    /\ use_openai \in BOOLEAN /\ api_key \in BOOLEAN
    /\ OrchInit
    /\ ParParked /\ target_language = "es"
    /\ UtilsParked

SpecJudge == SpecJudgeInit /\ [][JudgeNext]_vars

\* Once run has been called its steps are taken: the generation call returns
\* and nothing else in run waits.
SpecJudgeFair ==
    /\ SpecJudgeInit
    /\ [][JudgeNext]_vars
    /\ WF_vars(JLGenerate)
    /\ WF_vars(JLEvaluate)
    /\ WF_vars(JLReturn)

\* JudgeLoop with a generation call that can raise.
SpecJudgeFaulty == SpecJudgeInit /\ [][JudgeFaultyNext]_vars

\* JudgeLoop.evaluate called directly.
SpecEvaluateInit ==
    /\ JudgeParked /\ max_iterations = DefaultMaxIterations
    /\ use_openai = FALSE /\ api_key = FALSE
    /\ OrchInit
    /\ ParParked /\ target_language = "es"
    /\ UtilsParked

SpecEvaluate == SpecEvaluateInit /\ [][EvaluateNext]_vars

SpecParInit ==
    /\ ParInit
    /\ use_openai \in BOOLEAN /\ api_key \in BOOLEAN
    /\ OrchInit
    /\ JudgeParked /\ max_iterations = DefaultMaxIterations
    /\ UtilsParked

SpecPar == SpecParInit /\ [][ParNext]_vars

\* ParallelTranslation with generation calls that can raise.
SpecParFaulty == SpecParInit /\ [][ParFaultyNext]_vars

PatternsParked ==
    /\ OrchInit
    /\ JudgeParked /\ max_iterations = DefaultMaxIterations
    /\ ParParked /\ target_language = "es"

\* call_model called directly.
SpecGatewayInit ==
    /\ GatewayInit
    /\ PatternsParked
    /\ TracerParked /\ MemoryParked /\ MoreParked

SpecGateway == SpecGatewayInit /\ [][GatewayNext]_vars

SpecTracerInit ==
    /\ TracerInit
    /\ PatternsParked
    /\ use_openai = FALSE /\ api_key = FALSE
    /\ GatewayParked /\ MemoryParked /\ MoreParked

SpecTracer == SpecTracerInit /\ [][TracerNext]_vars

SpecMemoryInit ==
    /\ MemoryInit
    /\ PatternsParked
    /\ use_openai = FALSE /\ api_key = FALSE
    /\ GatewayParked /\ TracerParked /\ MoreParked

SpecMemory == SpecMemoryInit /\ [][MemoryNext]_vars

SpecRouterInit ==
    /\ RouterInit
    /\ PatternsParked
    /\ ChainParked /\ memory_size = DefaultMemorySize
    /\ use_openai = FALSE /\ api_key = FALSE
    /\ GatewayParked /\ TracerParked /\ MemoryParked

SpecRouter == SpecRouterInit /\ [][RouterNext]_vars

\* The sequential chain on its own, with and without the remote API.
SpecChainInit ==
    /\ ChainInit
    /\ RouterParked
    /\ PatternsParked
    /\ use_openai \in BOOLEAN /\ api_key \in BOOLEAN
    /\ GatewayParked /\ TracerParked /\ MemoryParked

SpecChain == SpecChainInit /\ [][ChainNext]_vars

\* C17: for a task whose type has no entry in self.workers, execute_tasks
\* calls the default analysis worker (the method, whatever the table holds
\* under "analysis") and appends that worker's outcome; for a task whose
\* type has an entry it calls exactly the worker of that entry.
C17_DispatchByTypeWithDefault ==
    \A i \in 1..Len(invoked) :
       /\ tasks[i].type \in DOMAIN workers =>
            /\ invoked[i] = workers[tasks[i].type]
            /\ (i <= Len(results) /\ ~call_worker(workers[tasks[i].type], tasks[i]).raised)
                 => results[i] = call_worker(workers[tasks[i].type], tasks[i]).value
       /\ tasks[i].type \notin DOMAIN workers =>
            /\ invoked[i] = "analysis_worker"
            /\ i <= Len(results) => results[i] = analysis_worker(tasks[i]).value

\* A task of a type without an entry was executed by the default analysis
\* worker while the table's "analysis" entry held a raising worker, next to
\* a task that went to its own entry.
C17_Witness ==
    /\ orch_pc = "returned"
    /\ workers["analysis"] = "raising_worker"
    /\ Len(results) = 3
    /\ tasks[2].type \notin DOMAIN workers
    /\ invoked[2] = "analysis_worker"
    /\ results[2].success
    /\ invoked[1] = workers["backend"]
    /\ invoked[3] = "raising_worker"
    /\ ~results[3].success

(***************************************************************************)
(* JudgeLoop: properties.                                                  *)
(***************************************************************************)
PassedAt(k) == k \in 1..Len(eval_calls) /\ eval_calls[k].score = "pass"

NeverPassed == \A k \in 1..Len(eval_calls) : eval_calls[k].score # "pass"

\* C1: with max_iterations >= 1, when the evaluation first passes on
\* iteration k, the loop stops there: no generation or evaluation follows
\* iteration k, and the result has passed = true, iterations = k and the
\* outline generated in iteration k.
C1_StopsAtFirstPass ==
    max_iterations >= 1 =>
      \A k \in 1..Len(eval_calls) :
        PassedAt(k) =>
          /\ eval_calls[k].iteration = k
          /\ Len(eval_calls) = k
          /\ Len(gen_calls) = k
          /\ jl_pc \in {"return", "done"}
          /\ jl_pc = "done" =>
               /\ jl_result.passed
               /\ jl_result.iterations = k
               /\ jl_result.outline = gen_calls[k].reply

C1_Witness ==
    /\ jl_pc = "done"
    /\ max_iterations = 3
    /\ PassedAt(2)
    /\ jl_result.passed
    /\ jl_result.iterations = 2

\* C2: with max_iterations >= 1, a run always terminates with a result;
\* when the evaluation never passed, the result has passed = false,
\* iterations = max_iterations, and the outline and the verdict feedback of
\* iteration max_iterations.
C2_ExhaustedRunReturnsLast ==
    /\ [](max_iterations >= 1 /\ jl_pc # "idle" => <>(jl_pc = "done"))
    /\ [](max_iterations >= 1 => jl_pc # "error" /\ jl_error = None)
    /\ [](jl_pc = "done" /\ max_iterations >= 1 /\ NeverPassed =>
            /\ ~jl_result.passed
            /\ jl_result.iterations = max_iterations
            /\ Len(gen_calls) = max_iterations
            /\ Len(eval_calls) = max_iterations
            /\ jl_result.outline = gen_calls[max_iterations].reply
            /\ jl_result.feedback = eval_calls[max_iterations].feedback
            /\ jl_result.feedback # "")

C2_Witness ==
    /\ jl_pc = "done"
    /\ max_iterations = 3
    /\ NeverPassed
    /\ ~jl_result.passed
    /\ jl_result.iterations = 3

\* C3: with max_iterations >= 1, whatever the generator returns, run makes
\* at least one and at most max_iterations generate/evaluate cycles; with
\* max_iterations = 1 it makes exactly one cycle, without retry.
C3_CyclesBetweenOneAndMax ==
    max_iterations >= 1 =>
      /\ Len(gen_calls) <= max_iterations
      /\ Len(eval_calls) <= Len(gen_calls)
      /\ Len(gen_calls) <= Len(eval_calls) + 1
      /\ jl_pc \in {"return", "done"} =>
           /\ Len(gen_calls) >= 1
           /\ Len(eval_calls) = Len(gen_calls)
      /\ (jl_pc \in {"return", "done"} /\ max_iterations = 1) =>
           Len(gen_calls) = 1 /\ Len(eval_calls) = 1

C3_Witness ==
    /\ jl_pc = "done"
    /\ max_iterations = 1
    /\ ~jl_result.passed
    /\ Len(gen_calls) = 1
    /\ Len(eval_calls) = 1

(***************************************************************************)
(* ParallelTranslation: properties.                                        *)
(***************************************************************************)
Occurrences(seq, x) == Cardinality({i \in 1..Len(seq) : seq[i] = x})

FirstOccurrence(seq, x) == SetMin({i \in 1..Len(seq) : seq[i] = x})

\* C10: best is one of the three collected replies, no reply occurs more
\* often than it, and among the replies occurring as often it is the one
\* that occurs first in the collected order; so [A, A, B] and [B, A, A]
\* select A, and three distinct replies select the first.
C10_BestIsFirstMostFrequent ==
    par_pc = "done" =>
      LET tr   == par_result.translations
          best == par_result.best
      IN /\ Len(tr) = 3
         /\ \E i \in 1..3 : tr[i] = best
         /\ \A i \in 1..3 :
              /\ Occurrences(tr, tr[i]) <= Occurrences(tr, best)
              /\ Occurrences(tr, tr[i]) = Occurrences(tr, best)
                   => FirstOccurrence(tr, best) <= i
         /\ (tr[1] = tr[2] /\ tr[3] # tr[1]) => best = tr[1]
         /\ (tr[2] = tr[3] /\ tr[1] # tr[2]) => best = tr[2]
         /\ (tr[1] # tr[2] /\ tr[1] # tr[3] /\ tr[2] # tr[3]) => best = tr[1]

C10_Witness ==
    /\ par_pc = "done"
    /\ par_result.translations[2] = par_result.translations[3]
    /\ par_result.translations[1] # par_result.translations[2]
    /\ par_result.best = par_result.translations[2]


(***************************************************************************)
(* ParallelTranslation with failing calls: properties.                     *)
(***************************************************************************)
\* C11: ParallelTranslation.run is an all-or-nothing join.  It returns a
\* result only when all three translate_once calls have returned, and the
\* vote is over exactly those three replies; when any one of the calls has
\* raised, run never returns a result, whatever the other calls replied: it
\* raises.
C11_AllOrNothingJoin ==
    /\ par_pc = "done" =>
         /\ par_failures = {}
         /\ Len(translations) = NumAttempts
         /\ par_result.translations = translations
         /\ par_error = None
    /\ par_failures # {} =>
         /\ par_result = NoResult
         /\ par_pc \in {"gather", "error"}
    /\ par_pc = "error" =>
         /\ par_failures # {}
         /\ calls_finished = NumAttempts
         /\ par_error # None

\* One call raised, two replied, and run raised instead of voting.
C11_Witness ==
    /\ par_pc = "error"
    /\ Cardinality(par_failures) = 1
    /\ Len(translations) = NumAttempts - 1
    /\ par_result = NoResult


(***************************************************************************)
(* JudgeLoop.evaluate: properties.                                         *)
(***************************************************************************)
\* C12: for every outline, the verdict of JudgeLoop.evaluate has empty
\* feedback if and only if its score is "pass".
C12_EmptyFeedbackIffPass ==
    /\ \A k \in 1..Len(eval_calls) :
         (eval_calls[k].feedback = "") <=> (eval_calls[k].score = "pass")
    /\ evaluation # UnboundEvaluation =>
         ((evaluation.feedback = "") <=> (evaluation.score = "pass"))
    /\ \A k \in 1..Len(eval_calls) :
         eval_calls[k].score \in {"pass", "needs_improvement"}

\* evaluate has passed an outline of nine words with a keyword in capitals.
C12_Witness ==
    /\ jl_pc = "evaluated"
    /\ evaluation.score = "pass"
    /\ evaluation.feedback = ""
    /\ word_count(eval_calls[1].outline) = 9


(***************************************************************************)
(* Tracer: properties.                                                     *)
(***************************************************************************)
\* A step of finalize.
FinalizeStep == Len(tr_finalized') = Len(tr_finalized) + 1

\* C13: Tracer.finalize appends every buffered event, in order, to the
\* stored events of the run, leaves the buffer empty and returns the
\* location of the store; a finalize that finds the buffer empty leaves the
\* stored events as they were and returns the same location.
C13_FinalizeFlushesBuffer ==
    [][FinalizeStep =>
         /\ tr_store' = tr_store \o tr_events
         /\ tr_events' = <<>>
         /\ tr_finalized'[Len(tr_finalized')].path = TracePath
         /\ tr_events = <<>> => tr_store' = tr_store
         /\ \A i \in 1..Len(tr_finalized) :
              tr_finalized'[Len(tr_finalized')].path = tr_finalized[i].path]_vars

\* Two events were logged and flushed by one finalize, and the next finalize
\* found the buffer empty.
C13_Witness ==
    /\ Len(tr_finalized) = 2
    /\ tr_finalized[1].written = 2
    /\ tr_finalized[2].written = 0
    /\ tr_events = <<>>
    /\ Len(tr_store) >= 2
    /\ tr_finalized[1].path = tr_finalized[2].path


(***************************************************************************)
(* call_model: properties.                                                 *)
(***************************************************************************)
LastContent(call) == call.messages[Len(call.messages)]
ZeroUsage(call) ==
    call.out.usage.prompt_tokens = 0 /\ call.out.usage.completion_tokens = 0
CountedUsage(call) ==
    call.out.usage.prompt_tokens >= 1 /\ call.out.usage.completion_tokens >= 1

\* The call went to the remote backend and an error was raised there.
RemoteErrored(call) == use_openai /\ call.out.cause # None

\* C14, as the specification states it: when the remote backend is selected
\* and the remote call errors, call_model does not raise and returns the
\* stub's reply for the last message; both usage counters are zero exactly
\* in that case, and a stub-mode call reports counters of at least one.
C14_ZeroUsageExactlyOnFallback ==
    \A i \in 1..Len(cm_calls) :
       /\ RemoteErrored(cm_calls[i]) =>
            /\ ~cm_calls[i].out.raised
            /\ cm_calls[i].out.reply \in stub_response(LastContent(cm_calls[i]))
       /\ ZeroUsage(cm_calls[i]) <=> RemoteErrored(cm_calls[i])
       /\ ~use_openai => CountedUsage(cm_calls[i])

\* C14, amended: when the remote backend is selected and the remote call
\* errors, call_model does not raise and returns the stub's reply for the
\* last message with both usage counters zero; a stub-mode call reports
\* counters of at least one; a remote call that succeeds reports the
\* counters of the API, whatever they are, and returns the API's text.
C14_FallbackReturnsStubReply ==
    \A i \in 1..Len(cm_calls) :
       /\ ~cm_calls[i].out.raised
       /\ RemoteErrored(cm_calls[i]) =>
            /\ cm_calls[i].out.path = "fallback"
            /\ cm_calls[i].out.reply \in stub_response(LastContent(cm_calls[i]))
            /\ ZeroUsage(cm_calls[i])
       /\ ~use_openai =>
            /\ cm_calls[i].out.path = "stub"
            /\ cm_calls[i].out.reply \in stub_response(LastContent(cm_calls[i]))
            /\ CountedUsage(cm_calls[i])
       /\ (use_openai /\ ~RemoteErrored(cm_calls[i])) =>
            /\ cm_calls[i].out.path = "remote"
            /\ cm_calls[i].out.reply \in RemoteReplies
            /\ cm_calls[i].out.usage \in RemoteUsages

\* With a key set the request failed, and the call returned the stub's reply
\* to the last message (not to the system message before it) with zero
\* counters.
C14_Witness ==
    /\ use_openai /\ api_key
    /\ Len(cm_calls) >= 1
    /\ cm_calls[1].messages = <<SystemText, "hello">>
    /\ cm_calls[1].out.cause = "APIError"
    /\ cm_calls[1].out.reply = "OK"
    /\ ZeroUsage(cm_calls[1])

\* C16: when the remote backend is selected and the credential is missing,
\* call_model raises to its caller: no reply is returned and nothing is
\* substituted.
C16_MissingKeyRaises ==
    \A i \in 1..Len(cm_calls) :
       (use_openai /\ ~api_key) => cm_calls[i].out.raised


Min(a, b) == IF a < b THEN a ELSE b

\* The last n items of seq, in order.
LastItems(seq, n) == SubSeq(seq, Len(seq) - n + 1, Len(seq))

\* C18: SlidingWindowMemory(max_length) raises at construction when
\* max_length <= 0 and holds nothing.  With max_length = n >= 1, after any k
\* add calls the buffer holds exactly the most recent min(k, n) items, in
\* the order they were added: it never holds more than n, and the oldest
\* item is the one evicted.
C18_WindowKeepsMostRecent ==
    /\ mem_pc = "raised" <=> (mem_pc # "new" /\ max_length <= 0)
    /\ mem_pc = "raised" => (mem_error = "ValueError" /\ added = <<>> /\ buffer = <<>>)
    /\ mem_pc = "ready" =>
         /\ max_length >= 1
         /\ mem_error = None
         /\ Len(buffer) <= max_length
         /\ buffer = LastItems(added, Min(Len(added), max_length))

\* A window of two after five adds: three items were evicted, oldest first.
C18_Witness ==
    /\ mem_pc = "ready"
    /\ max_length = 2
    /\ added = <<"hi", "hi", "yo", "hi", "yo">>
    /\ buffer = <<"hi", "yo">>


(***************************************************************************)
(* JudgeLoop: what each iteration receives and records.                    *)
(***************************************************************************)
\* C19: the generation call of iteration 1 receives no feedback, and for
\* every N >= 1 the generation call of iteration N + 1 receives exactly the
\* feedback of the verdict of iteration N, nothing of earlier iterations
\* added to it.
C19_FeedbackOfPreviousVerdictOnly ==
    /\ Len(gen_calls) >= 1 => gen_calls[1].feedback = ""
    /\ \A n \in 1..(Len(gen_calls) - 1) :
         /\ gen_calls[n + 1].iteration = n + 1
         /\ eval_calls[n].iteration = n
         /\ gen_calls[n + 1].feedback = eval_calls[n].feedback

\* Three generation calls: the third received the feedback of the second
\* verdict.
C19_Witness ==
    /\ Len(gen_calls) = 3
    /\ gen_calls[1].feedback = ""
    /\ eval_calls[2].feedback # ""
    /\ gen_calls[3].feedback = eval_calls[2].feedback

\* The events of the run so far: those written to the file and those still
\* in the tracer's buffer.
JLTrace == jl_store \o jl_events

ApprovalEvents ==
    IF Len(eval_calls) >= 1 /\ eval_calls[Len(eval_calls)].score = "pass"
    THEN 1 ELSE 0

\* C20: every iteration makes exactly one generation call and then exactly
\* one evaluation, of the outline that generation call returned, and records
\* one generator event and then one evaluator event.  The trace of a run is
\* the topic event followed by the generator/evaluator pairs in iteration
\* order, and one approval event after the pair of a passing iteration.
C20_TraceIsTopicThenPairs ==
    /\ Len(eval_calls) <= Len(gen_calls)
    /\ Len(gen_calls) <= Len(eval_calls) + 1
    /\ Len(gen_calls) = Len(eval_calls) + 1 <=> jl_pc = "evaluate"
    /\ jl_pc # "idle" =>
         /\ JLTrace[1] = TraceEvent("user", "client", topic)
         /\ Len(JLTrace) = 1 + Len(gen_calls) + Len(eval_calls) + ApprovalEvents
    /\ \A i \in 1..Len(gen_calls) :
         /\ gen_calls[i].iteration = i
         /\ JLTrace[2 * i] =
              TraceEvent("agent", "generator",
                         "Iteration " \o ToString(i) \o ": " \o gen_calls[i].reply)
    /\ \A i \in 1..Len(eval_calls) :
         /\ eval_calls[i].iteration = i
         /\ eval_calls[i].outline = gen_calls[i].reply
         /\ JLTrace[2 * i + 1] =
              TraceEvent("agent", "evaluator",
                         "Evaluation: " \o eval_calls[i].score \o " - "
                           \o eval_calls[i].feedback)
         /\ eval_calls[i].score = "pass" => i = Len(eval_calls)
    /\ ApprovalEvents = 1 =>
         JLTrace[Len(JLTrace)] =
           TraceEvent("agent", "loop",
                      "Outline approved on iteration "
                        \o ToString(Len(eval_calls)))
    /\ jl_pc = "done" =>
         /\ jl_store = JLTrace
         /\ Len(gen_calls) = iteration
         /\ Len(eval_calls) = iteration

\* A run that passed on its second iteration: topic, two pairs, approval.
C20_Witness ==
    /\ jl_pc = "done"
    /\ iteration = 2
    /\ Len(jl_store) = 6
    /\ jl_store[1].sender = "client"
    /\ jl_store[2].sender = "generator"
    /\ jl_store[3].sender = "evaluator"
    /\ jl_store[4].sender = "generator"
    /\ jl_store[5].sender = "evaluator"
    /\ jl_store[6].sender = "loop"


(***************************************************************************)
(* Orchestrator: order of the calls, and the summary.                      *)
(***************************************************************************)
\* A step in which a worker is called.
WorkerStarts == invoked' # invoked

\* C21: execute_tasks is strictly sequential.  A worker is called only when
\* the outcome of every earlier task has been recorded; the call is for the
\* next task in input order and its outcome is recorded before anything
\* else happens, also when the worker raises; and when execute_tasks has
\* returned, exactly one call has been made per task.
C21_StrictlySequential ==
    /\ [](ExecuteTasksReturned => Len(invoked) = Len(tasks))
    /\ [](Len(invoked) = Len(results))
    /\ [][WorkerStarts =>
            /\ Len(invoked) = Len(results)
            /\ Len(invoked) < Len(tasks)
            /\ invoked' = Append(invoked,
                                 IF tasks[Len(invoked) + 1].type \in DOMAIN workers
                                 THEN workers[tasks[Len(invoked) + 1].type]
                                 ELSE "analysis_worker")
            /\ Len(results') = Len(results) + 1
            /\ SubSeq(results', 1, Len(results)) = results
            /\ results'[Len(results')].task_id = tasks[Len(invoked')].task_id]_vars

\* Three tasks were executed one after another, the second by a worker that
\* raised.
C21_Witness ==
    /\ ExecuteTasksReturned
    /\ Len(tasks) = 3
    /\ Len(invoked) = 3
    /\ invoked[2] = "raising_worker"
    /\ ~results[2].success
    /\ invoked[3] = "analysis_worker"
    /\ results[3].success
    /\ results[3].task_id = tasks[3].task_id

\* One line per outcome as the specification describes it.
NarrativeLine(r) ==
    r.task_id \o " (" \o (IF r.success THEN "succeeded" ELSE "failed") \o "): "
      \o (IF r.success THEN r.output ELSE r.error)

RECURSIVE Narrative(_)
Narrative(rs) ==
    IF rs = <<>> THEN ""
    ELSE IF Len(rs) = 1 THEN NarrativeLine(rs[1])
    ELSE Narrative(SubSeq(rs, 1, Len(rs) - 1)) \o "\n" \o NarrativeLine(rs[Len(rs)])

\* C22, as the specification states it: the summary of a run is exactly the
\* lines of its outcomes, in outcome order, joined by newlines, and nothing
\* else.
C22_SummaryIsOutcomeLinesOnly ==
    orch_pc = "done" => orch_result.summary = Narrative(orch_result.results)

\* One line per outcome: the id, the marker, and the output, or the error
\* when the output is empty.
OutcomeLine(r) ==
    r.task_id \o " (" \o (IF r.success THEN "succeeded" ELSE "failed") \o "): "
      \o (IF r.output # "" THEN r.output ELSE r.error)

RECURSIVE OutcomeLines(_)
OutcomeLines(rs) ==
    IF rs = <<>> THEN ""
    ELSE IF Len(rs) = 1 THEN OutcomeLine(rs[1])
    ELSE OutcomeLines(SubSeq(rs, 1, Len(rs) - 1)) \o "\n" \o OutcomeLine(rs[Len(rs)])

\* C22, amended: the text built by synthesise_results, which run logs as its
\* Summary event, is exactly one line per outcome, in outcome order, joined
\* by newlines, each line made of the task id, the marker and the outcome's
\* output, or its error when the output is empty; the summary of the result
\* of run is that text followed by one more line, "Trace saved to " and the
\* path of the trace file.
C22_SummaryIsOutcomeLinesThenTracePath ==
    orch_pc = "done" =>
       /\ orch_result.summary =
            OutcomeLines(orch_result.results) \o "\nTrace saved to " \o TracePath
       /\ orch_store[Len(orch_store)] =
            TraceEvent("agent", "orchestrator",
                       "Summary:\n" \o OutcomeLines(orch_result.results))

\* A run with a succeeded and a failed outcome has returned its summary.
C22_Witness ==
    /\ orch_pc = "done"
    /\ Len(orch_result.results) >= 2
    /\ orch_result.results[1].success
    /\ ~orch_result.results[2].success


(***************************************************************************)
(* The rule-based stub: determinism.                                       *)
(***************************************************************************)
\* The reply of the call was computed by _stub_response.
FromStub(call) == call.out.path \in {"stub", "fallback"}

\* C23: the rule-based stub is deterministic: two calls whose reply comes
\* from _stub_response and whose prompt (the content of the last message) is
\* the same return the same reply, for every kind of prompt, story-outline
\* prompts included.
C23_StubIsDeterministic ==
    \A i, j \in 1..Len(cm_calls) :
       (/\ FromStub(cm_calls[i])
        /\ FromStub(cm_calls[j])
        /\ LastContent(cm_calls[i]) = LastContent(cm_calls[j]))
         => cm_calls[i].out.reply = cm_calls[j].out.reply


(***************************************************************************)
(* Router: properties.                                                     *)
(***************************************************************************)
\* The register_handler calls for a language code among the first n calls.
RegistrationsOf(lang, n) ==
    {k \in 1..n : rt_ops[k].op = "register" /\ rt_ops[k].code = lang}

LatestOf(S) == CHOOSE k \in S : \A j \in S : j <= k

\* The handler registered for a language code when call number n + 1 is
\* made: that of the latest register_handler call for the code, else the
\* one __init__ registered, else none.
RegisteredFor(lang, n) ==
    IF RegistrationsOf(lang, n) # {}
    THEN rt_ops[LatestOf(RegistrationsOf(lang, n))].handler
    ELSE IF lang = "en" THEN "_handle_english"
    ELSE IF lang = "es" THEN "_handle_spanish"
    ELSE IF lang = "fr" THEN "_handle_french"
    ELSE None

Validated == validation_result # NoResult

\* C25: run generates, then validates, then translates: the first call of
\* the model is the generation call and nothing is validated before it;
\* every later call is a translation call, made only after a validation
\* that found the copy valid, for the headline, the body and the call to
\* action in that order; a run that returns made the three translation
\* calls and returns their replies when the copy is valid, and made no
\* translation call and returns None as translated_copy when it is not;
\* is_valid is true exactly when the feedback is "All checks passed!".
C25_TranslationOnlyWhenValid ==
    /\ sc_pc \in {"idle", "generating"} => ~Validated /\ sc_calls = <<>>
    /\ sc_pc \in {"validating", "translating", "returning", "done"} =>
         /\ Len(sc_calls) >= 1
         /\ sc_calls[1] = ChainCall("generate", generation_prompt(product_description),
                                    sc_copy.body)
    /\ sc_pc = "validating" => ~Validated /\ Len(sc_calls) = 1
    /\ \A i \in 2..Len(sc_calls) :
         /\ Validated /\ validation_result.is_valid
         /\ i <= 4
         /\ sc_calls[i].step = "translate"
         /\ sc_calls[i].prompt = phrase_prompt(sc_language, parts_of(sc_copy)[i - 1])
    /\ Validated =>
         (validation_result.is_valid <=> validation_result.feedback = "All checks passed!")
    /\ sc_pc = "done" =>
         /\ sc_result.validation = validation_result
         /\ IF validation_result.is_valid
            THEN /\ Len(sc_calls) = 4
                 /\ sc_result.translated_copy =
                      TranslatedCopy(sc_copy, sc_calls[2].reply, sc_calls[3].reply,
                                     sc_calls[4].reply)
            ELSE /\ Len(sc_calls) = 1
                 /\ sc_result.translated_copy = NoResult

C25_Witness ==
    /\ sc_pc = "done"
    /\ sc_result.validation.is_valid
    /\ sc_result.validation.feedback = "All checks passed!"
    /\ Len(sc_calls) = 4
    /\ sc_result.translated_copy # NoResult
    /\ sc_result.translated_copy.translated_call_to_action = "Mas informacion"

\* The events this recorder has handed to the store: those logged before
\* its latest finalize.
Flushed == SubSeq(tr_logged, 1, Len(tr_logged) - Len(tr_events))

\* C26: whatever the order of the log and finalize calls on one recorder,
\* the store holds, after what it held when the recorder was constructed,
\* every event logged before the latest finalize, once each and in the
\* order logged, and the buffer holds the events logged since; so a
\* repeated finalize neither duplicates, reorders nor drops an event.
C26_StoreIsLoggedPrefix ==
    /\ Len(tr_events) <= Len(tr_logged)
    /\ \E earlier \in EarlierStores : tr_store = earlier \o Flushed
    /\ tr_events = SubSeq(tr_logged, Len(Flushed) + 1, Len(tr_logged))
    /\ tr_finalized = <<>> => Flushed = <<>>

\* log, finalize, log, finalize, finalize: both events are stored once.
C26_Witness ==
    /\ Len(tr_finalized) = 3
    /\ Len(tr_logged) = 2
    /\ tr_logged[1].content # tr_logged[2].content
    /\ tr_finalized[1].written = 1
    /\ tr_finalized[2].written = 1
    /\ tr_finalized[3].written = 0
    /\ Len(tr_store) \in {2, 3}

\* C27: the feedback returned by run is the text held for generation, not
\* the feedback of the last verdict.  A run that passes on iteration k
\* returns the feedback that the generation of iteration k received, which
\* is the verdict feedback of iteration k - 1: it is empty exactly when
\* k = 1, and for k >= 2 it is non-empty and differs from the feedback of
\* the passing verdict.  A run that ends without a pass returns the text the
\* next generation would have received.
C27_ReturnedFeedbackIsGenerationFeedback ==
    jl_pc = "done" =>
        LET k == jl_result.iterations
        IN /\ k >= 1 /\ k = Len(eval_calls) /\ k = Len(gen_calls)
           /\ jl_result.passed = (eval_calls[k].score = "pass")
           /\ jl_result.passed =>
                /\ jl_result.feedback = gen_calls[k].feedback
                /\ jl_result.feedback =
                     (IF k = 1 THEN "" ELSE eval_calls[k - 1].feedback)
                /\ jl_result.feedback = "" <=> k = 1
                /\ k >= 2 => jl_result.feedback # eval_calls[k].feedback
           /\ ~jl_result.passed =>
                jl_result.feedback = next_feedback(gen_calls[k].feedback, eval_calls[k])

\* A run that passed on its third iteration and returns the feedback of the
\* second verdict.
C27_Witness ==
    /\ jl_pc = "done"
    /\ jl_result.passed
    /\ jl_result.iterations = 3
    /\ jl_result.feedback # ""
    /\ jl_result.feedback = eval_calls[2].feedback
    /\ eval_calls[3].feedback = ""

\* C28: any max_iterations is accepted at construction; a run with
\* max_iterations <= 0 makes no generation call and no evaluation, and ends
\* in an error when it comes to build its result, which is never returned.
C28_NoCycleEndsInError ==
    max_iterations <= 0 =>
        /\ gen_calls = <<>> /\ eval_calls = <<>>
        /\ jl_pc \in {"idle", "return", "error"}
        /\ jl_result = NoResult
        /\ evaluation = UnboundEvaluation
        /\ jl_pc = "error" => jl_error = "UnboundLocalError"
        /\ jl_pc # "error" => jl_error = None

C28_Witness ==
    /\ max_iterations = 0
    /\ jl_pc = "error"
    /\ jl_error = "UnboundLocalError"
    /\ topic # None
    /\ gen_calls = <<>>
    /\ jl_result = NoResult

(***************************************************************************)
(* ParallelTranslation: the order of the three calls.                      *)
(***************************************************************************)
EndOf(i) == CHOOSE n \in 1..Len(par_trace) :
                par_trace[n].attempt = i /\ par_trace[n].at = "end"

==============================================================================
